---- MODULE Spec2Model ----
(***************************************************************************)
(* A model of futility-rs: the flash map locator/decoder of src/fmap.rs    *)
(* (FMap::find_fmap, FMap::parse_fmap, the FMapAreaRaw conversion) and the *)
(* region tree builder of src/cmd/dump_fmap.rs (dump_human_readable).      *)
(*                                                                         *)
(* A byte source is a sequence of bytes (0..255); file offset o is element *)
(* o + 1.  A String is the sequence of its UTF-8 bytes.                    *)
(***************************************************************************)
EXTENDS Integers, Sequences, FiniteSets, TLC

(***************************************************************************)
(* Bounds of the model.                                                    *)
(***************************************************************************)
\* Largest limit (= length - HEADER_SIZE) of the dense family of byte sources.
MaxLimit == 28
\* Largest number of area records of a planted descriptor.
MaxAreas == 2
\* Largest end (offset + size) of an area given to dump_human_readable.
MaxEnd == 3
\* Largest number of areas of a descriptor given to dump_human_readable.
MaxDumpAreas == 3

(***************************************************************************)
(* Program constants (src/fmap.rs).                                        *)
(***************************************************************************)
\* const Static = 1 << 0 .. const Preserve = 1 << 3
Static == 1
Compressed == 2
RO == 4
Preserve == 8
SEARCH_STRIDE == 4
NAME_LEN == 32
\* b"__FMAP__"
SIGNATURE == <<95, 95, 70, 77, 65, 80, 95, 95>>
VERSION_MAJOR == 1
HEADER_SIZE == Len(SIGNATURE) + 1 + 1 + 8 + 4 + NAME_LEN + 2
\* mem::size_of::<FMapAreaRaw>() of the packed struct
AREA_SIZE == 4 + 4 + NAME_LEN + 2
\* the largest u8 and u16
U8Max == 255
U16Max == 65535

(***************************************************************************)
(* Pure helpers.                                                           *)
(***************************************************************************)
RECURSIVE BitAnd(_, _)
BitAnd(a, b) ==
    IF a = 0 \/ b = 0 THEN 0
    ELSE (IF a % 2 = 1 /\ b % 2 = 1 THEN 1 ELSE 0) + 2 * BitAnd(a \div 2, b \div 2)

RECURSIVE Pow2(_)
Pow2(n) == IF n = 0 THEN 1 ELSE 2 * Pow2(n - 1)

\* floor(log2(n)) for n >= 1
RECURSIVE FloorLog2(_)
FloorLog2(n) == IF n <= 1 THEN 0 ELSE 1 + FloorLog2(n \div 2)

\* u32/u64/u16::from_le_bytes: the little-endian value of a byte sequence.
RECURSIVE LEDecode(_)
LEDecode(b) == IF b = <<>> THEN 0 ELSE b[1] + 256 * LEDecode(Tail(b))

\* to_le_bytes: the w little-endian bytes of n.
RECURSIVE LEEncode(_, _)
LEEncode(n, w) == IF w = 0 THEN <<>> ELSE <<n % 256>> \o LEEncode(n \div 256, w - 1)

Zeros(n) == [i \in 1..n |-> 0]

IsCont(b) == b >= 128 /\ b <= 191

\* str::from_utf8 / CStr::to_str: whether the bytes are well-formed UTF-8.
RECURSIVE Utf8Valid(_)
Utf8Valid(s) ==
    IF s = <<>> THEN TRUE
    ELSE LET b == s[1]
             n == Len(s)
         IN  IF b < 128 THEN Utf8Valid(Tail(s))
             ELSE IF b >= 194 /\ b <= 223
                  THEN n >= 2 /\ IsCont(s[2]) /\ Utf8Valid(SubSeq(s, 3, n))
             ELSE IF b >= 224 /\ b <= 239
                  THEN /\ n >= 3
                       /\ IsCont(s[2]) /\ IsCont(s[3])
                       /\ (b = 224 => s[2] >= 160)
                       /\ (b = 237 => s[2] <= 159)
                       /\ Utf8Valid(SubSeq(s, 4, n))
             ELSE IF b >= 240 /\ b <= 244
                  THEN /\ n >= 4
                       /\ IsCont(s[2]) /\ IsCont(s[3]) /\ IsCont(s[4])
                       /\ (b = 240 => s[2] >= 144)
                       /\ (b = 244 => s[2] <= 143)
                       /\ Utf8Valid(SubSeq(s, 5, n))
             ELSE FALSE

\* The name conversion of From<FMapAreaRaw> and From<FMapRaw>: the bytes up to
\* the first NUL, or the whole field when it holds no NUL; "" when not UTF-8.
NameFromBytes(field) ==
    IF \E i \in 1..Len(field) : field[i] = 0
    THEN LET z == CHOOSE i \in 1..Len(field) :
                      field[i] = 0 /\ \A j \in 1..(i - 1) : field[j] # 0
             pre == SubSeq(field, 1, z - 1)
         IN  IF Utf8Valid(pre) THEN pre ELSE <<>>
    ELSE IF Utf8Valid(field) THEN field ELSE <<>>

\* FMapFlags::from_bits: the flags when no unknown bit is set, None otherwise.
AllFlags == Static + Compressed + RO + Preserve
from_bits(raw) ==
    IF BitAnd(raw, U16Max - AllFlags) = 0
    THEN [some |-> TRUE, bits |-> raw]
    ELSE [some |-> FALSE, bits |-> 0]

\* FMapFlags::empty()
FlagsEmpty == 0

\* Option::unwrap_or
unwrap_or(opt, default) == IF opt.some THEN opt.bits ELSE default

\* impl From<FMapAreaRaw> for FMapArea, on the 42 bytes of the packed record.
FMapArea_from(buf) ==
    [name   |-> NameFromBytes(SubSeq(buf, 9, 8 + NAME_LEN)),
     offset |-> LEDecode(SubSeq(buf, 1, 4)),
     size   |-> LEDecode(SubSeq(buf, 5, 8)),
     flags  |-> unwrap_or(from_bits(LEDecode(SubSeq(buf, 9 + NAME_LEN, 10 + NAME_LEN))),
                          FlagsEmpty)]

\* The fields of FMapRaw read from the 56 bytes of the packed header.
RawMajor(buf) == buf[Len(SIGNATURE) + 1]
RawMinor(buf) == buf[Len(SIGNATURE) + 2]
RawNareas(buf) == LEDecode(SubSeq(buf, HEADER_SIZE - 1, HEADER_SIZE))

\* impl From<FMapRaw> for FMap
FMap_from(buf) ==
    [name          |-> NameFromBytes(SubSeq(buf, 23, 22 + NAME_LEN)),
     version_major |-> RawMajor(buf),
     version_minor |-> RawMinor(buf),
     base          |-> LEDecode(SubSeq(buf, 11, 18)),
     size          |-> LEDecode(SubSeq(buf, 19, 22)),
     areas         |-> <<>>]

\* Read::read in place of read_exact: a short read leaves the zeroed buffer's tail.
ReadShort(d, p, n) ==
    [ok |-> TRUE,
     buf |-> [i \in 1..n |-> IF p + i <= Len(d) THEN d[p + i] ELSE 0]]

\* Read::read_exact of n bytes at cursor p: the bytes, or a failure at a short read.
ReadExact(d, p, n) ==
    IF p + n <= Len(d)
    THEN [ok |-> TRUE, buf |-> SubSeq(d, p + 1, p + n)]
    ELSE [ok |-> FALSE, buf |-> <<>>]

\* FMap::is_fmap with the cursor at p: Ok(true), Ok(false) or Err.
is_fmap(d, p) ==
    LET r == ReadExact(d, p, Len(SIGNATURE))
    IN  IF ~r.ok THEN "Err" ELSE IF r.buf = SIGNATURE THEN "true" ELSE "false"

\* HEADER_SIZE as u64 >= data_size
TooSmall(data_size) == HEADER_SIZE >= data_size

\* let align_log = ((limit - 1) as f64).log2(); 2usize.pow(align_log as u32)
\* (log2(0) is -inf, which the cast saturates to 0)
StartAlign(limit) == Pow2(IF limit - 1 <= 0 THEN 0 ELSE FloorLog2(limit - 1))

\* the scan going on below the stride, down to alignment 1
ScanContinuesBelowStride(al) == al >= 1

\* while align >= SEARCH_STRIDE
ScanContinues(al) == al >= SEARCH_STRIDE

\* mem::size_of::<FMapRaw>() of the packed struct
FMapRawSize == Len(SIGNATURE) + 1 + 1 + 8 + 4 + NAME_LEN + 2

(***************************************************************************)
(* The wire format, used to build byte sources: the packed little-endian   *)
(* layout of FMapRaw followed by one FMapAreaRaw per area.                 *)
(***************************************************************************)
PadName(name) == name \o Zeros(NAME_LEN - Len(name))

EncodeArea(a) ==
    LEEncode(a.offset, 4) \o LEEncode(a.size, 4) \o PadName(a.name) \o LEEncode(a.flags, 2)

RECURSIVE EncodeAreas(_)
EncodeAreas(as) == IF as = <<>> THEN <<>> ELSE EncodeArea(Head(as)) \o EncodeAreas(Tail(as))

EncodeHeader(D) ==
    SIGNATURE \o <<D.version_major, D.version_minor>> \o LEEncode(D.base, 8)
        \o LEEncode(D.size, 4) \o PadName(D.name) \o LEEncode(Len(D.areas), 2)

Encode(D) == EncodeHeader(D) \o EncodeAreas(D.areas)

(***************************************************************************)
(* State.                                                                  *)
(***************************************************************************)
VARIABLES
    data,      \* the byte source behind `reader`
    entry,     \* the public function called: "find_fmap" or "parse_fmap"
    pc,        \* the position in find_fmap / parse_fmap
    pos,       \* the reader's cursor
    reads,     \* the read_exact calls made so far, <<cursor, length>> each
    limit,     \* find_fmap: data_size - HEADER_SIZE
    align,     \* find_fmap: the alignment of the outer loop
    offset,    \* find_fmap: the candidate offset of the inner loop
    fmap,      \* parse_fmap: the FMap being built
    nareas,    \* parse_fmap: fmap_nareas
    result     \* the value returned

findVars == <<data, entry, pc, pos, reads, limit, align, offset, fmap, nareas, result>>

VARIABLES
    dfmap,           \* dump_human_readable: the descriptor `fmap`
    show_gaps,       \* dump_human_readable: the parameter
    ignore_overlap,  \* dump_human_readable: the parameter
    dpc,             \* the position in dump_human_readable
    arena,           \* the Node behind every Rc<RefCell<Node>>, by handle
    nodes,           \* the handles of `nodes`, sorted
    deduplicated,    \* the handles of `deduplicated`
    overlaps,        \* the overlap counter
    idx,             \* the index of the running loop
    gap_count,       \* the gap counter
    all_nodes,       \* the handles of `all_nodes`
    out,             \* the lines written to `writer`
    dresult,         \* the value returned
    wrapped          \* an offset + size evaluated so far left the usize word

dumpVars == <<dfmap, show_gaps, ignore_overlap, dpc, arena, nodes, deduplicated,
              overlaps, idx, gap_count, all_nodes, out, dresult, wrapped>>

VARIABLES
    cmd,                 \* the subcommand run: "load_fmap" or "extract_fmap"
    tpc,                 \* the position in its run_command
    image,               \* the bytes of the file behind `input_file`
    input_pos,           \* the cursor of `input_file`
    tfmap,               \* the descriptor find_fmap returned
    params,              \* args.params: <<area_name, path>> each
    pidx,                \* the index of the pair the loop is at
    fill_value,          \* load_fmap: args.fill_value
    output,              \* load_fmap: args.output is Some(path)
    output_file,         \* load_fmap: the bytes of the temporary file
    output_pos,          \* load_fmap: the cursor of the temporary file
    errors_encountered,  \* the flag of the loop
    written,             \* extract_fmap: the fs::write calls, [path, bytes] each
    final_file,          \* load_fmap: the bytes written to the output path
    messages,            \* the error!/eprintln! lines, [kind, area] each
    tresult              \* the value returned

toolVars == <<cmd, tpc, image, input_pos, tfmap, params, pidx, fill_value, output,
              output_file, output_pos, errors_encountered, written, final_file,
              messages, tresult>>

VARIABLES
    overflow_checks      \* the build panics on integer overflow (true) or wraps

vars == <<findVars, dumpVars, toolVars, overflow_checks>>

NoFMap == [name |-> <<>>, version_major |-> 0, version_minor |-> 0,
           base |-> 0, size |-> 0, areas |-> <<>>]

NoResult == [kind |-> "None", fmap |-> NoFMap, hit_offset |-> -1, major |-> 0, minor |-> 0]

\* Ok(fmap) of parse_fmap, Ok((fmap, offset)) of find_fmap
OkResult(f, hit) == [NoResult EXCEPT !.kind = "Ok", !.fmap = f, !.hit_offset = hit]
\* Err(FMapError::NotFound)
NotFound == [NoResult EXCEPT !.kind = "NotFound"]
\* Err(FMapError::IOError { .. })
IOError == [NoResult EXCEPT !.kind = "IOError"]
\* a variant of the error below that reports the descriptor as not found
IncorrectVersionAsNotFound(ma, mi) == NotFound

\* the version pair in the wrong order
IncorrectVersionSwapped(ma, mi) ==
    [NoResult EXCEPT !.kind = "IncorrectVersion", !.major = mi, !.minor = ma]

\* Err(FMapError::IncorrectVersion(major, minor))
IncorrectVersion(ma, mi) ==
    [NoResult EXCEPT !.kind = "IncorrectVersion", !.major = ma, !.minor = mi]

(***************************************************************************)
(* The byte sources the model runs on.                                     *)
(***************************************************************************)
NameEmpty == <<>>
\* "ab"
NameAb == <<97, 98>>
\* "ab__FMAP__": a name that holds the signature
NameSig == NameAb \o SIGNATURE
\* a name that fills the field, with no NUL
NameFull == [i \in 1..NAME_LEN |-> 110]
\* "e" with an acute accent, two bytes of UTF-8
NameUtf8 == <<195, 169>>
\* not UTF-8
NameBad == <<255, 97>>

Hdr(name, ma, mi, base, size) ==
    [name |-> name, version_major |-> ma, version_minor |-> mi,
     base |-> base, size |-> size, areas |-> <<>>]

PlainHdr == Hdr(NameEmpty, VERSION_MAJOR, 0, 0, 1024)

AreaPool ==
    { [name |-> <<98, 111, 111, 116>>, offset |-> 0, size |-> 128, flags |-> Static],
      [name |-> SIGNATURE, offset |-> 128, size |-> 0, flags |-> Static + 16] }

AreaLists == UNION { [1..n -> AreaPool] : n \in 0..MaxAreas }

\* The descriptors planted in byte sources.
Descs ==
    { [PlainHdr EXCEPT !.areas = as] : as \in AreaLists }
    \cup { Hdr(NameSig, VERSION_MAJOR, U8Max, 256, 1024),
           Hdr(NameFull, VERSION_MAJOR, 1, 0, 70000),
           Hdr(NameUtf8, VERSION_MAJOR, 0, 0, 1024),
           Hdr(NameBad, VERSION_MAJOR, 0, 0, 1024),
           Hdr(NameAb, 6, 6, 0, 1024),
           [Hdr(NameAb, 6, 6, 0, 1024) EXCEPT !.areas = <<CHOOSE a \in AreaPool : a.size = 128>>] }

\* A descriptor an encoder can have written: a version-1 header whose name is a
\* String of at most NAME_LEN bytes without NUL.
WellFormed(D) ==
    /\ D.version_major = VERSION_MAJOR
    /\ Len(D.name) <= NAME_LEN
    /\ Utf8Valid(D.name)
    /\ \A i \in 1..Len(D.name) : D.name[i] # 0

MaxTotal == HEADER_SIZE + MaxLimit + MaxAreas * AREA_SIZE

Blank == Zeros(MaxTotal)

\* d with `bytes` written at offset off (cut at the end of d)
Plant(d, off, bytes) ==
    [i \in 1..Len(d) |-> IF i > off /\ i <= off + Len(bytes) THEN bytes[i - off] ELSE d[i]]

Truncate(d, len) == SubSeq(d, 1, len)

LenSet ==
    (HEADER_SIZE - 2)..(HEADER_SIZE + MaxLimit)
    \cup { HEADER_SIZE + j * AREA_SIZE - e : j \in 1..MaxAreas, e \in {0, 1} }
    \cup { MaxTotal }

\* signature bytes in unrelated data: bare, or followed by version bytes 1.0
Stamps == { SIGNATURE, SIGNATURE \o <<VERSION_MAJOR, 0>> }

SigAt(d, o) == o >= 0 /\ o + Len(SIGNATURE) <= Len(d)
               /\ SubSeq(d, o + 1, o + Len(SIGNATURE)) = SIGNATURE

SigOffsets(d) == { o \in 0..Len(d) : SigAt(d, o) }

\* a little-endian field whose value is below 2^31
Fits31(b) == \A i \in 1..Len(b) : (i = 4 => b[i] < 128) /\ (i > 4 => b[i] = 0)

\* Every version-1 header behind a signature, and every complete area record
\* after it, holds base, size and offset values below 2^31: the byte sources
\* are restricted to those whose decoded fields the model's integers hold.
Representable(d) ==
    \A o \in SigOffsets(d) :
        (o + HEADER_SIZE <= Len(d) /\ d[o + Len(SIGNATURE) + 1] = VERSION_MAJOR) =>
            /\ Fits31(SubSeq(d, o + 11, o + 18))
            /\ Fits31(SubSeq(d, o + 19, o + 22))
            /\ \A i \in 0..((Len(d) - o - HEADER_SIZE) \div AREA_SIZE - 1) :
                   i < LEDecode(SubSeq(d, o + HEADER_SIZE - 1, o + HEADER_SIZE)) =>
                       LET r == o + HEADER_SIZE + i * AREA_SIZE
                       IN  Fits31(SubSeq(d, r + 1, r + 4)) /\ Fits31(SubSeq(d, r + 5, r + 8))

\* one descriptor at any offset, in a source of any length
OneDescriptor ==
    { Truncate(Plant(Blank, k, Encode(D)), len) :
          k \in 0..MaxLimit, D \in Descs, len \in LenSet }

\* no signature at all
NoDescriptor == { Truncate(Blank, len) : len \in LenSet }

\* a plain descriptor after a stray signature
StrayThenDescriptor ==
    UNION { { Truncate(Plant(Plant(Blank, q, st), k, Encode(PlainHdr)), HEADER_SIZE + lim) :
                  q \in { x \in 0..MaxLimit : x + Len(st) <= k } } :
            k \in 0..MaxLimit, st \in Stamps, lim \in 1..MaxLimit }

\* every minor version, under major version 1 and 6
EveryMinor ==
    { Truncate(Plant(Blank, k, Encode(Hdr(NameAb, ma, mi, 0, 1024))),
               HEADER_SIZE + 2 * SEARCH_STRIDE) :
          k \in {0, SEARCH_STRIDE}, ma \in {VERSION_MAJOR, 6}, mi \in 0..U8Max }

\* a descriptor with a full-length name after a stray signature with version
\* bytes 1.0: read as a header, the stray one takes its area count from the
\* name bytes of the descriptor behind it
StrayBeforeNamed ==
    { Truncate(Plant(Plant(Blank, q, SIGNATURE \o <<VERSION_MAJOR, 0>>), k,
                     Encode(Hdr(NameFull, VERSION_MAJOR, 1, 0, 70000))),
               HEADER_SIZE + lim) :
          q \in {SEARCH_STRIDE, 2 * SEARCH_STRIDE},
          k \in { x \in 1..MaxLimit : x % SEARCH_STRIDE = 0 },
          lim \in 1..MaxLimit }

Sources ==
    { d \in OneDescriptor \cup NoDescriptor \cup StrayThenDescriptor \cup EveryMinor
             \cup StrayBeforeNamed :
          Representable(d) }

(***************************************************************************)
(* FMap::find_fmap and FMap::parse_fmap, one read or loop test per step.   *)
(***************************************************************************)
InitFind ==
    /\ data \in Sources
    /\ \/ entry = "find_fmap" /\ pc = "find" /\ pos = 0
       \/ entry = "parse_fmap" /\ pc = "parse_header" /\ pos \in SigOffsets(data)
    /\ reads = <<>>
    /\ limit = 0
    /\ align = 0
    /\ offset = 0
    /\ fmap = NoFMap
    /\ nareas = 0
    /\ result = NoResult

Return(r) == result' = r /\ pc' = "done"

\* reader.seek(SeekFrom::End(0)) and the size test (fmap.rs 162-169)
FindStart ==
    /\ pc = "find"
    /\ pos' = Len(data)
    /\ IF TooSmall(Len(data)) THEN Return(IOError) ELSE pc' = "quick" /\ result' = result
    /\ UNCHANGED <<data, entry, reads, limit, align, offset, fmap, nareas>>
    /\ UNCHANGED <<dumpVars, toolVars, overflow_checks>>

\* Quick check at the beginning, then limit and the first alignment (171-187)
QuickCheck ==
    /\ pc = "quick"
    /\ reads' = Append(reads, <<0, Len(SIGNATURE)>>)
    /\ LET r == is_fmap(data, 0)
       IN  CASE r = "true" ->
                    /\ pos' = 0
                    /\ offset' = 0
                    /\ pc' = "parse_header"
                    /\ UNCHANGED <<limit, align, result>>
             [] r = "Err" ->
                    /\ pos' = Len(data)
                    /\ Return(IOError)
                    /\ UNCHANGED <<limit, align, offset>>
             [] OTHER ->
                    /\ pos' = Len(SIGNATURE)
                    /\ limit' = Len(data) - HEADER_SIZE
                    /\ align' = StartAlign(Len(data) - HEADER_SIZE)
                    /\ pc' = "outer"
                    /\ UNCHANGED <<offset, result>>
    /\ UNCHANGED <<data, entry, fmap, nareas>>
    /\ UNCHANGED <<dumpVars, toolVars, overflow_checks>>

\* while align >= SEARCH_STRIDE { let mut offset = align; ... } Err(NotFound)
ScanOuter ==
    /\ pc = "outer"
    /\ IF ScanContinues(align)
       THEN offset' = align /\ pc' = "inner" /\ result' = result
       ELSE offset' = offset /\ Return(NotFound)
    /\ UNCHANGED <<data, entry, pos, reads, limit, align, fmap, nareas>>
    /\ UNCHANGED <<dumpVars, toolVars, overflow_checks>>

\* while offset <= limit { seek; is_fmap; ... offset += align } align /= 2
ScanInner ==
    /\ pc = "inner"
    /\ IF offset <= limit
       THEN /\ reads' = Append(reads, <<offset, Len(SIGNATURE)>>)
            /\ LET r == is_fmap(data, offset)
               IN  CASE r = "true" ->
                            /\ pos' = offset
                            /\ pc' = "parse_header"
                            /\ UNCHANGED <<offset, result>>
                     [] r = "Err" ->
                            /\ pos' = Len(data)
                            /\ Return(IOError)
                            /\ UNCHANGED offset
                     [] OTHER ->
                            /\ pos' = offset + Len(SIGNATURE)
                            /\ offset' = offset + align
                            /\ UNCHANGED <<pc, result>>
            /\ align' = align
       ELSE /\ align' = align \div 2
            /\ pc' = "outer"
            /\ UNCHANGED <<pos, reads, offset, result>>
    /\ UNCHANGED <<data, entry, limit, fmap, nareas>>
    /\ UNCHANGED <<dumpVars, toolVars, overflow_checks>>

\* parse_fmap: the header read, the version test, FMap::from (123-138)
ParseHeader ==
    /\ pc = "parse_header"
    /\ reads' = Append(reads, <<pos, FMapRawSize>>)
    /\ LET r == ReadExact(data, pos, FMapRawSize)
       IN  IF ~r.ok
           THEN pos' = Len(data) /\ Return(IOError) /\ UNCHANGED <<fmap, nareas>>
           ELSE /\ pos' = pos + FMapRawSize
                /\ IF RawMajor(r.buf) # VERSION_MAJOR
                   THEN /\ Return(IncorrectVersion(RawMajor(r.buf), RawMinor(r.buf)))
                        /\ UNCHANGED <<fmap, nareas>>
                   ELSE /\ fmap' = FMap_from(r.buf)
                        /\ nareas' = RawNareas(r.buf)
                        /\ pc' = "parse_areas"
                        /\ result' = result
    /\ UNCHANGED <<data, entry, limit, align, offset>>
    /\ UNCHANGED <<dumpVars, toolVars, overflow_checks>>

\* parse_fmap: for _ in 0..fmap_nareas { read; push } Ok(fmap) (141-151), and
\* find_fmap's return Ok((fmap, offset)) (177, 197)
ParseArea ==
    /\ pc = "parse_areas"
    /\ IF Len(fmap.areas) < nareas
       THEN /\ reads' = Append(reads, <<pos, AREA_SIZE>>)
            /\ LET r == ReadExact(data, pos, AREA_SIZE)
               IN  IF ~r.ok
                   THEN pos' = Len(data) /\ Return(IOError) /\ fmap' = fmap
                   ELSE /\ pos' = pos + AREA_SIZE
                        /\ fmap' = [fmap EXCEPT !.areas = Append(@, FMapArea_from(r.buf))]
                        /\ UNCHANGED <<pc, result>>
       ELSE /\ Return(OkResult(fmap, IF entry = "find_fmap" THEN offset ELSE -1))
            /\ UNCHANGED <<pos, reads, fmap>>
    /\ UNCHANGED <<data, entry, limit, align, offset, nareas>>
    /\ UNCHANGED <<dumpVars, toolVars, overflow_checks>>

(***************************************************************************)
(* The region tree builder: Node and dump_human_readable                   *)
(* (src/cmd/dump_fmap.rs).  A Rc<RefCell<Node>> is a handle: an index into *)
(* `arena`; the handle of the i-th area is i, the whole-image node follows. *)
(***************************************************************************)
\* "-entire flash-"
RootName == <<45, 101, 110, 116, 105, 114, 101, 32, 102, 108, 97, 115, 104, 45>>
\* "[UNUSED]"
UnusedName == <<91, 85, 78, 85, 83, 69, 68, 93>>
\* parent: None
NoParent == 0
\* usize::MAX, scaled down: above every size of the model
UsizeMax == 65535

NewNode(name, off, size, parent) ==
    [name |-> name, offset |-> off, size |-> size, aliases |-> <<>>,
     parent |-> parent, children |-> <<>>]

\* a variant of Node::is_duplicate that also wants the names equal
IsDuplicateWithName(self, node) ==
    self.offset = node.offset /\ self.size = node.size /\ self.name = node.name

\* Node::is_duplicate
is_duplicate(self, node) == self.offset = node.offset /\ self.size = node.size

\* self.offset + self.size leaves the usize word: a build with overflow checks
\* panics where it evaluates this sum
Ovf(self) == self.offset + self.size > UsizeMax

\* Node::end, as a build without overflow checks computes it
end(self) == (self.offset + self.size) % (UsizeMax + 1)

\* a variant of Node::overlaps that looks one way only
OverlapsOneWay(self, node) ==
    self.offset < node.offset /\ node.offset < end(self) /\ end(self) < end(node)

\* Node::overlaps
overlaps_(self, node) ==
    \/ self.offset < node.offset /\ node.offset < end(self) /\ end(self) < end(node)
    \/ node.offset < self.offset /\ self.offset < end(node) /\ end(node) < end(self)

\* Node::overlaps evaluates an end() that leaves the word: && and || evaluate
\* their right operand only when the left one does not decide
OverlapsOverflows(self, node) ==
    \/ /\ self.offset < node.offset
       /\ Ovf(self) \/ (node.offset < end(self) /\ Ovf(node))
    \/ /\ node.offset < self.offset
       /\ Ovf(node) \/ (self.offset < end(node) /\ Ovf(self))

\* Node::fits_in
fits_in(self, node) == self.offset >= node.offset /\ end(self) <= end(node)

\* Node::fits_in evaluates an end() that leaves the word
FitsInOverflows(self, node) ==
    self.offset >= node.offset /\ (Ovf(self) \/ Ovf(node))

\* Node::parents_number
RECURSIVE parents_number(_, _)
parents_number(ar, h) ==
    IF ar[h].parent = NoParent THEN 0 ELSE parents_number(ar, ar[h].parent) + 1

\* String's Ord: lexicographic on the bytes
RECURSIVE StrLess(_, _)
StrLess(a, b) ==
    IF b = <<>> THEN FALSE
    ELSE IF a = <<>> THEN TRUE
    ELSE IF a[1] # b[1] THEN a[1] < b[1]
    ELSE StrLess(Tail(a), Tail(b))

\* a variant of the order below with the smaller size first
KeyLessSizeAscending(a, b) ==
    \/ a.offset < b.offset
    \/ /\ a.offset = b.offset
       /\ \/ a.size < b.size
          \/ a.size = b.size /\ StrLess(a.name, b.name)

\* the order of the sort key (v.offset, usize::MAX - v.size, v.name.clone())
KeyLess(a, b) ==
    \/ a.offset < b.offset
    \/ /\ a.offset = b.offset
       /\ \/ UsizeMax - a.size < UsizeMax - b.size
          \/ UsizeMax - a.size = UsizeMax - b.size /\ StrLess(a.name, b.name)

\* sort_unstable_by_key: handles whose keys are equal stay in their order (the
\* nodes behind them are equal in every field the function reads afterwards)
RECURSIVE InsertByKey(_, _, _)
InsertByKey(ar, s, h) ==
    IF s = <<>> THEN <<h>>
    ELSE IF KeyLess(ar[h], ar[Head(s)]) THEN <<h>> \o s
    ELSE <<Head(s)>> \o InsertByKey(ar, Tail(s), h)

\* a variant of the sort below that leaves the list as it is
KeepOrder(ar, s) == s

RECURSIVE SortByKey(_, _)
SortByKey(ar, s) ==
    IF s = <<>> THEN <<>>
    ELSE InsertByKey(ar, SortByKey(ar, SubSeq(s, 1, Len(s) - 1)), s[Len(s)])

\* Convert into nodes (117-138): one node per area, then the whole-image node
ConvertNodes(f) ==
    [i \in 1..(Len(f.areas) + 1) |->
        IF i <= Len(f.areas)
        THEN NewNode(f.areas[i].name, f.areas[i].offset, f.areas[i].size, NoParent)
        ELSE NewNode(RootName, f.base, f.size, NoParent)]

\* a variant of the search below that looks for duplicates only
FirstDuplicate(ar, dedup, h) ==
    LET hit(j) == is_duplicate(ar[h], ar[dedup[j]])
    IN  IF \E j \in 1..Len(dedup) : hit(j)
        THEN CHOOSE j \in 1..Len(dedup) : hit(j) /\ \A k \in 1..(j - 1) : ~hit(k)
        ELSE 0

\* the index of the first node of `deduplicated` the candidate is a duplicate
\* of or overlaps (150-168), 0 when there is none
FirstClash(ar, dedup, h) ==
    LET hit(j) == is_duplicate(ar[h], ar[dedup[j]]) \/ overlaps_(ar[h], ar[dedup[j]])
    IN  IF \E j \in 1..Len(dedup) : hit(j)
        THEN CHOOSE j \in 1..Len(dedup) : hit(j) /\ \A k \in 1..(j - 1) : ~hit(k)
        ELSE 0

\* the comparisons of one candidate (150-168), up to the first clash, evaluate
\* an end() that leaves the word
DedupOverflows(ar, dedup, h) ==
    LET j0 == FirstClash(ar, dedup, h)
    IN  \E j \in 1..(IF j0 = 0 THEN Len(dedup) ELSE j0) :
            /\ ~is_duplicate(ar[h], ar[dedup[j]])
            /\ OverlapsOverflows(ar[h], ar[dedup[j]])

\* for k in (0..i).rev(): the first index below i whose node contains node i
\* (182-189), 0 when there is none; indices from 1 here
NearestContainer(ar, dedup, i) ==
    LET fits(k) == fits_in(ar[dedup[i]], ar[dedup[k]])
    IN  IF \E k \in 1..(i - 1) : fits(k)
        THEN CHOOSE k \in 1..(i - 1) : fits(k) /\ \A m \in (k + 1)..(i - 1) : ~fits(m)
        ELSE 0

\* the fits_in calls for node i (182-189), down to the nearest container,
\* evaluate an end() that leaves the word
ParentOverflows(ar, dedup, i) ==
    LET k0 == NearestContainer(ar, dedup, i)
    IN  \E k \in (IF k0 = 0 THEN 1 ELSE k0)..(i - 1) :
            FitsInOverflows(ar[dedup[i]], ar[dedup[k]])

\* node.end() and the children's end() of the gap check (206, 212, 229) leave
\* the word
GapOverflows(ar, h) ==
    /\ ar[h].children # <<>>
    /\ Ovf(ar[h]) \/ \E c \in 1..Len(ar[h].children) : Ovf(ar[ar[h].children[c]])

\* n.end() of show (300) leaves the word
ShowOverflows(ar, hs) == \E i \in 1..Len(hs) : Ovf(ar[hs[i]])

\* a variant of the step below that counts the gap only when it pushes a node
AddGapCountedIfShown(acc, sg, parent, off, size) ==
    IF sg
    THEN [arena |-> Append(acc.arena, NewNode(UnusedName, off, size, parent)),
          new_children |-> Append(acc.new_children, Len(acc.arena) + 1),
          gap_count |-> acc.gap_count + 1]
    ELSE acc

\* a variant of the step below that pushes the node but does not count the gap
AddGapUncounted(acc, sg, parent, off, size) ==
    IF sg
    THEN [acc EXCEPT !.arena = Append(@, NewNode(UnusedName, off, size, parent)),
                     !.new_children = Append(@, Len(acc.arena) + 1)]
    ELSE acc

\* a gap found: count it and, with show_gaps, push an "[UNUSED]" node (216-226)
AddGap(acc, sg, parent, off, size) ==
    IF sg
    THEN [arena |-> Append(acc.arena, NewNode(UnusedName, off, size, parent)),
          new_children |-> Append(acc.new_children, Len(acc.arena) + 1),
          gap_count |-> acc.gap_count + 1]
    ELSE [acc EXCEPT !.gap_count = @ + 1]

\* for i in 0..node.borrow().children.len() { ... } (210-263), from index i
RECURSIVE GapLoop(_, _, _, _)
GapLoop(h, i, sg, acc) ==
    LET ar == acc.arena
        children == ar[h].children
    IN  IF i >= Len(children) THEN acc
        ELSE LET node_offset == ar[h].offset
                 node_end == end(ar[h])
                 child_offset == ar[children[i + 1]].offset
                 child_end == end(ar[children[i + 1]])
                 left_child_end == end(ar[children[i]])
                 a1 == IF i = 0 /\ node_offset < child_offset
                       THEN AddGap(acc, sg, h, node_offset, child_offset - node_offset)
                       ELSE IF i # 0 /\ left_child_end < child_offset
                       THEN AddGap(acc, sg, h, left_child_end, child_offset - left_child_end)
                       ELSE acc
                 a2 == [a1 EXCEPT !.new_children = Append(@, children[i + 1])]
                 a3 == IF i = Len(children) /\ node_end > child_end
                       THEN AddGap(a2, sg, h, node_end, node_end - child_end)
                       ELSE a2
             IN  GapLoop(h, i + 1, sg, a3)

HeaderLine == [kind |-> "header", level |-> 0, name |-> <<>>, offset |-> 0, end |-> 0, size |-> 0]

\* show_line
show_line(kind, level, name, off, e, size) ==
    [kind |-> kind, level |-> level, name |-> name, offset |-> off, end |-> e, size |-> size]

RECURSIVE AliasLines(_, _, _)
AliasLines(ar, h, as) ==
    IF as = <<>> THEN <<>>
    ELSE <<show_line("duplicate", parents_number(ar, h), Head(as),
                     ar[h].offset, end(ar[h]), ar[h].size)>>
         \o AliasLines(ar, h, Tail(as))

\* show: the header, then per node its line and one line per alias
RECURSIVE show(_, _)
show(ar, hs) ==
    IF hs = <<>> THEN <<>>
    ELSE LET h == Head(hs)
         IN  <<show_line("node", parents_number(ar, h), ar[h].name,
                         ar[h].offset, end(ar[h]), ar[h].size)>>
             \o AliasLines(ar, h, ar[h].aliases)
             \o show(ar, Tail(hs))

\* The descriptors dump_human_readable is given.
\* "!" sorts before "-entire flash-", "b" after
DumpNames == { <<33>>, <<98>> }

DumpAreas ==
    { [name |-> n, offset |-> o, size |-> z, flags |-> FlagsEmpty] :
          n \in DumpNames, o \in 0..MaxEnd, z \in 0..MaxEnd } 

DumpAreaLists ==
    UNION { [1..n -> { a \in DumpAreas : a.offset + a.size <= MaxEnd }] : n \in 0..MaxDumpAreas }

\* tests::example_fmap: "example", base 0, size 0x400, and its four areas
NameExample == <<101, 120, 97, 109, 112, 108, 101>>
NameBootblock == <<98, 111, 111, 116, 98, 108, 111, 99, 107>>
NameNormal == <<110, 111, 114, 109, 97, 108>>
NameFallback == <<102, 97, 108, 108, 98, 97, 99, 107>>
NameData == <<100, 97, 116, 97>>
ExampleSize == 1024

ExampleAreas ==
    { [name |-> NameBootblock, offset |-> 0, size |-> 128, flags |-> FlagsEmpty],
      [name |-> NameNormal, offset |-> 128, size |-> 128, flags |-> Preserve],
      [name |-> NameFallback, offset |-> 256, size |-> 256, flags |-> FlagsEmpty],
      [name |-> NameData, offset |-> 512, size |-> 512, flags |-> FlagsEmpty] }

\* "shared_dup", the range of "normal" once more
NameSharedDup == <<115, 104, 97, 114, 101, 100, 95, 100, 117, 112>>
SharedDup == [name |-> NameSharedDup, offset |-> 128, size |-> 128, flags |-> FlagsEmpty]

\* "straddle", [0x90, 0x180): partly in "normal", partly in "fallback"
NameStraddle == <<115, 116, 114, 97, 100, 100, 108, 101>>
Straddle == [name |-> NameStraddle, offset |-> 144, size |-> 240, flags |-> FlagsEmpty]

\* the areas of S in every order
Orders(S) ==
    { s \in [1..Cardinality(S) -> S] : \A i, j \in 1..Cardinality(S) : i # j => s[i] # s[j] }

ExampleInputs ==
    { [Hdr(NameExample, VERSION_MAJOR, 1, 0, ExampleSize) EXCEPT !.areas = as] :
          as \in Orders(ExampleAreas) \cup Orders(ExampleAreas \cup {SharedDup})
                   \cup Orders(ExampleAreas \cup {Straddle}) }

DumpInputs ==
    { [Hdr(NameAb, VERSION_MAJOR, 0, img[1], img[2]) EXCEPT !.areas = as] :
          img \in { <<0, MaxEnd>>, <<1, MaxEnd - 2>> }, as \in DumpAreaLists }
    \cup ExampleInputs

DOk == [kind |-> "Ok", overlaps |-> 0]
\* Err(format!("{overlaps} overlapping areas detected. Terminating."))
DErr(n) == [kind |-> "Err", overlaps |-> n]
\* panicked at 'attempt to add with overflow'
DPanic == [kind |-> "Panic", overlaps |-> 0]

IdleDump ==
    /\ dfmap = NoFMap
    /\ show_gaps = FALSE
    /\ ignore_overlap = FALSE
    /\ dpc = "idle"
    /\ arena = <<>>
    /\ nodes = <<>>
    /\ deduplicated = <<>>
    /\ overlaps = 0
    /\ idx = 0
    /\ gap_count = 0
    /\ all_nodes = <<>>
    /\ out = <<>>
    /\ dresult = [kind |-> "None", overlaps |-> 0]
    /\ wrapped = FALSE

\* no file: File::create has not run
NoFile == <<-1>>

IdleTool ==
    /\ cmd = "none"
    /\ tpc = "idle"
    /\ image = <<>>
    /\ input_pos = 0
    /\ tfmap = NoFMap
    /\ params = <<>>
    /\ pidx = 0
    /\ fill_value = 0
    /\ output = FALSE
    /\ output_file = <<>>
    /\ output_pos = 0
    /\ errors_encountered = FALSE
    /\ written = <<>>
    /\ final_file = NoFile
    /\ messages = <<>>
    /\ tresult = "None"

IdleFind ==
    /\ data = <<>>
    /\ entry = "none"
    /\ pc = "idle"
    /\ pos = 0
    /\ reads = <<>>
    /\ limit = 0
    /\ align = 0
    /\ offset = 0
    /\ fmap = NoFMap
    /\ nareas = 0
    /\ result = NoResult

InitDump ==
    /\ dfmap \in DumpInputs
    /\ show_gaps \in BOOLEAN
    /\ ignore_overlap \in BOOLEAN
    /\ dpc = "convert"
    /\ arena = <<>>
    /\ nodes = <<>>
    /\ deduplicated = <<>>
    /\ overlaps = 0
    /\ idx = 0
    /\ gap_count = 0
    /\ all_nodes = <<>>
    /\ out = <<>>
    /\ dresult = [kind |-> "None", overlaps |-> 0]
    /\ wrapped = FALSE

\* Convert into nodes, sort, and start the deduplicated list (117-148)
ConvertAndSort ==
    /\ dpc = "convert"
    /\ arena' = ConvertNodes(dfmap)
    /\ nodes' = SortByKey(arena', [i \in 1..Len(arena') |-> i])
    /\ deduplicated' = <<nodes'[1]>>
    /\ overlaps' = 0
    /\ idx' = 2
    /\ dpc' = "dedup"
    /\ UNCHANGED <<dfmap, show_gaps, ignore_overlap, gap_count, all_nodes, out, dresult,
                   wrapped>>
    /\ UNCHANGED <<findVars, toolVars, overflow_checks>>

\* 'dedup_outer: one candidate of nodes.iter().skip(1) (149-172)
DedupStep ==
    /\ dpc = "dedup"
    /\ idx <= Len(nodes)
    /\ LET h == nodes[idx]
           j == FirstClash(arena, deduplicated, h)
       IN  IF overflow_checks /\ DedupOverflows(arena, deduplicated, h)
           THEN /\ dresult' = DPanic
                /\ dpc' = "done"
                /\ UNCHANGED <<arena, deduplicated, overlaps, idx, wrapped>>
           ELSE /\ IF j = 0
                   THEN /\ deduplicated' = Append(deduplicated, h)
                        /\ UNCHANGED <<arena, overlaps>>
                   ELSE IF is_duplicate(arena[h], arena[deduplicated[j]])
                   THEN /\ arena' = [arena EXCEPT
                                        ![deduplicated[j]].aliases = Append(@, arena[h].name)]
                        /\ UNCHANGED <<deduplicated, overlaps>>
                   ELSE /\ overlaps' = IF ~ignore_overlap THEN overlaps + 1 ELSE overlaps
                        /\ UNCHANGED <<arena, deduplicated>>
                /\ wrapped' = (wrapped \/ DedupOverflows(arena, deduplicated, h))
                /\ idx' = idx + 1
                /\ UNCHANGED <<dpc, dresult>>
    /\ UNCHANGED <<dfmap, show_gaps, ignore_overlap, nodes, gap_count, all_nodes, out>>
    /\ UNCHANGED <<findVars, toolVars, overflow_checks>>

\* drop(nodes); if overlaps != 0 { return Err(..) } (173-177)
DedupEnd ==
    /\ dpc = "dedup"
    /\ idx > Len(nodes)
    /\ IF overlaps # 0
       THEN dresult' = DErr(overlaps) /\ dpc' = "done" /\ idx' = idx
       ELSE dresult' = dresult /\ dpc' = "parents" /\ idx' = 2
    /\ UNCHANGED <<dfmap, show_gaps, ignore_overlap, arena, nodes, deduplicated,
                   overlaps, gap_count, all_nodes, out, wrapped>>
    /\ UNCHANGED <<findVars, toolVars, overflow_checks>>

\* for i in 1..deduplicated.len(): the parent of one node (180-190)
ParentStep ==
    /\ dpc = "parents"
    /\ idx <= Len(deduplicated)
    /\ LET k == NearestContainer(arena, deduplicated, idx)
           a == deduplicated[idx]
       IN  IF overflow_checks /\ ParentOverflows(arena, deduplicated, idx)
           THEN /\ dresult' = DPanic
                /\ dpc' = "done"
                /\ UNCHANGED <<arena, idx, wrapped>>
           ELSE /\ IF k = 0
                   THEN arena' = arena
                   ELSE arena' = [arena EXCEPT ![a].parent = deduplicated[k],
                                               ![deduplicated[k]].children = Append(@, a)]
                /\ wrapped' = (wrapped \/ ParentOverflows(arena, deduplicated, idx))
                /\ idx' = idx + 1
                /\ UNCHANGED <<dpc, dresult>>
    /\ UNCHANGED <<dfmap, show_gaps, ignore_overlap, nodes, deduplicated,
                   overlaps, gap_count, all_nodes, out>>
    /\ UNCHANGED <<findVars, toolVars, overflow_checks>>

\* let mut gap_count = 0; let mut all_nodes = Vec::new(); (193-194)
ParentsEnd ==
    /\ dpc = "parents"
    /\ idx > Len(deduplicated)
    /\ dpc' = "gaps"
    /\ idx' = 1
    /\ gap_count' = 0
    /\ all_nodes' = <<>>
    /\ UNCHANGED <<dfmap, show_gaps, ignore_overlap, arena, nodes, deduplicated,
                   overlaps, out, dresult, wrapped>>
    /\ UNCHANGED <<findVars, toolVars, overflow_checks>>

\* Check for gaps: one node of deduplicated.iter() (195-271)
GapStep ==
    /\ dpc = "gaps"
    /\ idx <= Len(deduplicated)
    /\ LET h == deduplicated[idx]
       IN  IF overflow_checks /\ GapOverflows(arena, h)
           THEN /\ dresult' = DPanic
                /\ dpc' = "done"
                /\ all_nodes' = IF arena[h].parent = NoParent
                                THEN Append(all_nodes, h) ELSE all_nodes
                /\ UNCHANGED <<arena, gap_count, idx, wrapped>>
           ELSE /\ IF arena[h].children = <<>>
                   THEN UNCHANGED <<arena, gap_count, all_nodes>>
                   ELSE LET acc == GapLoop(h, 0, show_gaps,
                                           [arena |-> arena, new_children |-> <<>>,
                                            gap_count |-> gap_count])
                        IN  /\ arena' = [acc.arena EXCEPT ![h].children = acc.new_children]
                            /\ gap_count' = acc.gap_count
                            /\ all_nodes' = (IF arena[h].parent = NoParent
                                             THEN Append(all_nodes, h) ELSE all_nodes)
                                            \o acc.new_children
                /\ wrapped' = (wrapped \/ GapOverflows(arena, h))
                /\ idx' = idx + 1
                /\ UNCHANGED <<dpc, dresult>>
    /\ UNCHANGED <<dfmap, show_gaps, ignore_overlap, nodes, deduplicated, overlaps, out>>
    /\ UNCHANGED <<findVars, toolVars, overflow_checks>>

\* drop(deduplicated); all_nodes.sort_unstable_by_key(..); show(..)?; Ok(()) (273-285)
SortAndShow ==
    /\ dpc = "gaps"
    /\ idx > Len(deduplicated)
    /\ all_nodes' = SortByKey(arena, all_nodes)
    /\ IF overflow_checks /\ ShowOverflows(arena, all_nodes')
       THEN /\ out' = <<HeaderLine>>
                      \o show(arena, SubSeq(all_nodes', 1,
                              (CHOOSE i \in 1..Len(all_nodes') :
                                   /\ Ovf(arena[all_nodes'[i]])
                                   /\ \A m \in 1..(i - 1) : ~Ovf(arena[all_nodes'[m]])) - 1))
            /\ dresult' = DPanic
            /\ UNCHANGED wrapped
       ELSE /\ out' = <<HeaderLine>> \o show(arena, all_nodes')
            /\ dresult' = DOk
            /\ wrapped' = (wrapped \/ ShowOverflows(arena, all_nodes'))
    /\ dpc' = "done"
    /\ UNCHANGED <<dfmap, show_gaps, ignore_overlap, arena, nodes, deduplicated,
                   overlaps, idx, gap_count>>
    /\ UNCHANGED <<findVars, toolVars, overflow_checks>>

(***************************************************************************)
(* The passes of dump_human_readable as functions of the node list, for    *)
(* comparing the tree of one node list with the tree of another.           *)
(***************************************************************************)
\* 'dedup_outer from the i-th candidate on (149-172);
\* st = [arena, deduplicated, overlaps], io = ignore_overlap
RECURSIVE DedupFrom(_, _, _, _)
DedupFrom(st, ns, i, io) ==
    IF i > Len(ns) THEN st
    ELSE LET h == ns[i]
             j == FirstClash(st.arena, st.deduplicated, h)
             st1 == IF j = 0
                    THEN [st EXCEPT !.deduplicated = Append(@, h)]
                    ELSE IF is_duplicate(st.arena[h], st.arena[st.deduplicated[j]])
                    THEN [st EXCEPT !.arena[st.deduplicated[j]].aliases =
                                        Append(@, st.arena[h].name)]
                    ELSE [st EXCEPT !.overlaps = IF ~io THEN @ + 1 ELSE @]
         IN  DedupFrom(st1, ns, i + 1, io)

\* for i in 1..deduplicated.len() from the i-th accepted node on (180-190)
RECURSIVE ParentsFrom(_, _, _)
ParentsFrom(ar, dedup, i) ==
    IF i > Len(dedup) THEN ar
    ELSE LET k == NearestContainer(ar, dedup, i)
             a == dedup[i]
             ar1 == IF k = 0 THEN ar
                    ELSE [ar EXCEPT ![a].parent = dedup[k],
                                    ![dedup[k]].children = Append(@, a)]
         IN  ParentsFrom(ar1, dedup, i + 1)

\* lines 140-190 on a list of fresh nodes
BuildTree(ar0, io) ==
    LET ns == SortByKey(ar0, [i \in 1..Len(ar0) |-> i])
        d == DedupFrom([arena |-> ar0, deduplicated |-> <<ns[1]>>, overlaps |-> 0],
                       ns, 2, io)
    IN  [arena |-> ParentsFrom(d.arena, d.deduplicated, 2),
         deduplicated |-> d.deduplicated,
         overlaps |-> d.overlaps]

\* lines 140-172 on a list of fresh nodes
DedupAll(ar0, io) ==
    LET ns == SortByKey(ar0, [i \in 1..Len(ar0) |-> i])
    IN  DedupFrom([arena |-> ar0, deduplicated |-> <<ns[1]>>, overlaps |-> 0], ns, 2, io)

\* for node in deduplicated.iter() from the i-th accepted node on (195-271);
\* st = [arena, gap_count, all_nodes]
RECURSIVE GapsFrom(_, _, _, _)
GapsFrom(st, dedup, i, sg) ==
    IF i > Len(dedup) THEN st
    ELSE LET h == dedup[i]
             acc == GapLoop(h, 0, sg, [arena |-> st.arena, new_children |-> <<>>,
                                       gap_count |-> st.gap_count])
             st1 == IF st.arena[h].children = <<>> THEN st
                    ELSE [arena |-> [acc.arena EXCEPT ![h].children = acc.new_children],
                          gap_count |-> acc.gap_count,
                          all_nodes |-> (IF st.arena[h].parent = NoParent
                                         THEN Append(st.all_nodes, h) ELSE st.all_nodes)
                                        \o acc.new_children]
         IN  GapsFrom(st1, dedup, i + 1, sg)

\* dump_human_readable(fmap, show_gaps, ignore_overlap, writer) as a whole
Dump(f, sg, io) ==
    LET d == DedupAll(ConvertNodes(f), io)
    IN  IF d.overlaps # 0
        THEN [result |-> DErr(d.overlaps), arena |-> d.arena,
              deduplicated |-> d.deduplicated, gap_count |-> 0,
              all_nodes |-> <<>>, out |-> <<>>]
        ELSE LET g == GapsFrom([arena |-> ParentsFrom(d.arena, d.deduplicated, 2),
                                gap_count |-> 0, all_nodes |-> <<>>],
                               d.deduplicated, 1, sg)
                 sorted == SortByKey(g.arena, g.all_nodes)
             IN  [result |-> DOk, arena |-> g.arena, deduplicated |-> d.deduplicated,
                  gap_count |-> g.gap_count, all_nodes |-> sorted,
                  out |-> <<HeaderLine>> \o show(g.arena, sorted)]

(***************************************************************************)
(* load_fmap and extract_fmap (src/cmd/load_fmap.rs, src/cmd/extract_fmap.rs). *)
(* The u32 of FMapArea::offset, FMapArea::size and FMap::size is a word of  *)
(* U32Max + 1 values here, so that images that reach the end of the word    *)
(* are sequences TLC can hold.                                              *)
(***************************************************************************)
\* u32::MAX, scaled down
U32Max == 255
\* the number of SECTION:PATH pairs on the command line
MaxParams == 2
\* the length of the image file
ImageLen == 160

\* a + b on u32 leaves the word
Overflows32(a, b) == a + b > U32Max
\* a + b on u32 in a build without overflow checks
WrappingAdd32(a, b) == (a + b) % (U32Max + 1)

\* FMap::get: the index of the first area of that name, 0 for None
get(f, area_name) ==
    IF \E i \in 1..Len(f.areas) : f.areas[i].name = area_name
    THEN CHOOSE i \in 1..Len(f.areas) :
             f.areas[i].name = area_name /\ \A j \in 1..(i - 1) : f.areas[j].name # area_name
    ELSE 0

\* std::io::copy from a file whose cursor is at p: the bytes from p to the end
CopyFrom(f, p) == IF p >= Len(f) THEN <<>> ELSE SubSeq(f, p + 1, Len(f))

\* seek(Start(off)) and write(buf) on a file: bytes past the old end that the
\* write does not cover read as 0
WriteAt(f, off, buf) ==
    IF buf = <<>> THEN f
    ELSE [i \in 1..(IF Len(f) > off + Len(buf) THEN Len(f) ELSE off + Len(buf)) |->
             IF i > off /\ i <= off + Len(buf) THEN buf[i - off]
             ELSE IF i <= Len(f) THEN f[i] ELSE 0]

\* vec![fill; size] after one read from the start of a file with bytes `file`
FilledBuf(file, size, fill) ==
    [i \in 1..size |-> IF i <= Len(file) THEN file[i] ELSE fill]

\* vec![0u8; size] after seek(Start(off)) and read_exact on the image: the
\* bytes there are, zeros after the end of the file
ReadBuf(img, off, size) ==
    [i \in 1..size |-> IF off + i <= Len(img) THEN img[off + i] ELSE 0]

\* The inputs.  Section names "S", "I", "E", "W", "B"; "X" names no section.
SecS == [name |-> <<83>>, offset |-> 0, size |-> 4, flags |-> FlagsEmpty]
SecI == [name |-> <<73>>, offset |-> 150, size |-> 6, flags |-> FlagsEmpty]
SecE == [name |-> <<69>>, offset |-> 20, size |-> 0, flags |-> FlagsEmpty]
SecW == [name |-> <<87>>, offset |-> U32Max - 5, size |-> 10, flags |-> FlagsEmpty]
SecB == [name |-> <<66>>, offset |-> ImageLen - 10, size |-> 40, flags |-> FlagsEmpty]
NameX == <<88>>

ToolDescs ==
    { [Hdr(NameAb, VERSION_MAJOR, 1, 0, ImageLen) EXCEPT !.areas = as] :
          as \in { <<SecS, SecI>>, <<SecE, SecB>>, <<SecW, SecI>>, <<SecI>> } }

\* the image: bytes that tell their position, with the descriptor at `hit`
Ramp == [i \in 1..ImageLen |-> 100 + (i % 100)]

ImageWith(D, hit) == Plant(Ramp, hit, Encode(D))

\* the files behind the paths: "short.bin" and "long.bin" exist
FileAt(path) ==
    IF path = "short.bin" THEN <<201, 202>>
    ELSE IF path = "long.bin" THEN <<211, 212, 213, 214, 215, 216, 217, 218>>
    ELSE NoFile

ParamPairs ==
    { <<n, pth>> : n \in { <<83>>, <<73>>, <<69>>, <<87>>, <<66>>, NameX },
                   pth \in { "short.bin", "long.bin", "missing.bin" } }

ParamLists == UNION { [1..n -> ParamPairs] : n \in 1..MaxParams }

\* The state after File::open and a successful find_fmap: the descriptor
\* decoded at `hit`, the cursor behind its last area record.
InitTool ==
    /\ cmd \in {"load_fmap", "extract_fmap"}
    /\ \E D \in ToolDescs, hit \in {0, 2 * SEARCH_STRIDE} :
          /\ image = ImageWith(D, hit)
          /\ tfmap = D
          /\ input_pos = hit + Len(Encode(D))
    /\ params \in ParamLists
    /\ fill_value \in (IF cmd = "load_fmap" THEN {U8Max, 0} ELSE {0})
    /\ output \in (IF cmd = "load_fmap" THEN BOOLEAN ELSE {FALSE})
    /\ overflow_checks \in BOOLEAN
    /\ tpc = IF cmd = "load_fmap" THEN "copy" ELSE "params"
    /\ pidx = 1
    /\ output_file = <<>>
    /\ output_pos = 0
    /\ errors_encountered = FALSE
    /\ written = <<>>
    /\ final_file = NoFile
    /\ messages = <<>>
    /\ tresult = "None"

Message(kind, area_name) == [kind |-> kind, area |-> area_name]

ToolFrame == UNCHANGED <<cmd, image, tfmap, params, fill_value, output>>
             /\ UNCHANGED <<findVars, dumpVars, overflow_checks>>

\* load_fmap: tempfile() and std::io::copy(&mut input_file, &mut output_file)
\* (34-39)
LoadCopy ==
    /\ cmd = "load_fmap"
    /\ tpc = "copy"
    /\ output_file' = CopyFrom(image, input_pos)
    /\ output_pos' = Len(output_file')
    /\ input_pos' = IF input_pos > Len(image) THEN input_pos ELSE Len(image)
    /\ errors_encountered' = FALSE
    /\ tpc' = "params"
    /\ UNCHANGED <<pidx, written, final_file, messages, tresult>>
    /\ ToolFrame

\* load_fmap: one pair of args.params (40-88)
LoadParam ==
    /\ cmd = "load_fmap"
    /\ tpc = "params"
    /\ pidx <= Len(params)
    /\ LET area_name == params[pidx][1]
           path == params[pidx][2]
           i == get(tfmap, area_name)
           ar == tfmap.areas[i]
           buf == FilledBuf(FileAt(path), ar.size, fill_value)
           fail(kind) == /\ messages' = Append(messages, Message(kind, area_name))
                         /\ errors_encountered' = TRUE
                         /\ pidx' = pidx + 1
                         /\ UNCHANGED <<tpc, output_file, output_pos, tresult>>
       IN  IF i = 0 THEN fail("not found")
           ELSE IF Overflows32(ar.offset, ar.size) /\ overflow_checks
           THEN /\ tresult' = "Panic"
                /\ tpc' = "done"
                /\ UNCHANGED <<pidx, messages, errors_encountered, output_file, output_pos>>
           ELSE IF WrappingAdd32(ar.offset, ar.size) > tfmap.size
           THEN fail("stretches beyond image")
           ELSE IF FileAt(path) = NoFile THEN fail("failed to open")
           ELSE /\ output_file' = WriteAt(output_file, ar.offset, buf)
                /\ output_pos' = ar.offset + Len(buf)
                /\ pidx' = pidx + 1
                /\ UNCHANGED <<tpc, messages, errors_encountered, tresult>>
    /\ UNCHANGED <<input_pos, written, final_file>>
    /\ ToolFrame

\* load_fmap: after the loop (90-120).  input_file was opened for reading, so
\* with no output path the copy back fails as soon as there is a byte to write.
LoadFinish ==
    /\ cmd = "load_fmap"
    /\ tpc = "params"
    /\ pidx > Len(params)
    /\ LET rest == CopyFrom(output_file, output_pos)
       IN  IF errors_encountered
           THEN tresult' = "Err" /\ UNCHANGED <<final_file, output_pos>>
           ELSE IF output
           THEN /\ final_file' = rest
                /\ output_pos' = IF output_pos > Len(output_file) THEN output_pos
                                 ELSE Len(output_file)
                /\ tresult' = "Ok"
           ELSE /\ tresult' = IF rest = <<>> THEN "Ok" ELSE "Err"
                /\ UNCHANGED <<final_file, output_pos>>
    /\ tpc' = "done"
    /\ UNCHANGED <<input_pos, pidx, output_file, errors_encountered, written, messages>>
    /\ ToolFrame

\* extract_fmap: one pair of args.params (37-77); errors of seek and
\* read_exact are reported and the loop body goes on
ExtractParam ==
    /\ cmd = "extract_fmap"
    /\ tpc = "params"
    /\ pidx <= Len(params)
    /\ LET area_name == params[pidx][1]
           output_path == params[pidx][2]
           i == get(tfmap, area_name)
           ar == tfmap.areas[i]
           skip(kind, err) == /\ messages' = Append(messages, Message(kind, area_name))
                              /\ errors_encountered' = (errors_encountered \/ err)
                              /\ pidx' = pidx + 1
                              /\ UNCHANGED <<tpc, input_pos, written, tresult>>
       IN  IF i = 0 THEN skip("not found", TRUE)
           ELSE IF ar.offset = 0 THEN skip("zero size", FALSE)
           ELSE IF Overflows32(ar.offset, ar.size) /\ overflow_checks
           THEN /\ tresult' = "Panic"
                /\ tpc' = "done"
                /\ UNCHANGED <<pidx, messages, errors_encountered, input_pos, written>>
           ELSE IF WrappingAdd32(ar.offset, ar.size) > tfmap.size
           THEN skip("stretches beyond image", FALSE)
           ELSE /\ written' = Append(written, [path |-> output_path,
                                               bytes |-> ReadBuf(image, ar.offset, ar.size)])
                /\ input_pos' = IF ar.offset + ar.size <= Len(image)
                                THEN ar.offset + ar.size
                                ELSE IF ar.offset > Len(image) THEN ar.offset
                                ELSE Len(image)
                /\ messages' = IF ar.offset + ar.size <= Len(image) THEN messages
                               ELSE Append(messages, Message("unable to read", area_name))
                /\ pidx' = pidx + 1
                /\ UNCHANGED <<tpc, errors_encountered, tresult>>
    /\ UNCHANGED <<output_file, output_pos, final_file>>
    /\ ToolFrame

\* extract_fmap: after the loop (79-83)
ExtractFinish ==
    /\ cmd = "extract_fmap"
    /\ tpc = "params"
    /\ pidx > Len(params)
    /\ tresult' = IF errors_encountered THEN "Err" ELSE "Ok"
    /\ tpc' = "done"
    /\ UNCHANGED <<input_pos, pidx, output_file, output_pos, errors_encountered,
                   written, final_file, messages>>
    /\ ToolFrame

(***************************************************************************)
(* The specifications: find_fmap / parse_fmap on byte sources, and         *)
(* dump_human_readable on descriptors.                                     *)
(***************************************************************************)
Next == FindStart \/ QuickCheck \/ ScanOuter \/ ScanInner \/ ParseHeader \/ ParseArea

\* nothing in find_fmap or parse_fmap can overflow: limit - 1 is computed only
\* when data_size > HEADER_SIZE
Init == InitFind /\ IdleDump /\ IdleTool /\ overflow_checks = FALSE

Spec == Init /\ [][Next]_vars

NextDump ==
    \/ ConvertAndSort
    \/ DedupStep
    \/ DedupEnd
    \/ ParentStep
    \/ ParentsEnd
    \/ GapStep
    \/ SortAndShow

InitDumpRun == InitDump /\ IdleFind /\ IdleTool /\ overflow_checks = FALSE

SpecDump == InitDumpRun /\ [][NextDump]_vars

\* usize::MAX itself and the values next to it as `base`; the areas stay
\* where u32 puts them, far below
MaxWideAreas == 2

WideInputs ==
    { [Hdr(NameAb, VERSION_MAJOR, 0, b, z) EXCEPT !.areas = as] :
          b \in { UsizeMax - 1, UsizeMax }, z \in 0..2,
          as \in { l \in DumpAreaLists : Len(l) <= MaxWideAreas } }

InitDumpWide ==
    /\ dfmap \in WideInputs
    /\ show_gaps \in BOOLEAN
    /\ ignore_overlap \in BOOLEAN
    /\ overflow_checks \in BOOLEAN
    /\ dpc = "convert"
    /\ arena = <<>>
    /\ nodes = <<>>
    /\ deduplicated = <<>>
    /\ overlaps = 0
    /\ idx = 0
    /\ gap_count = 0
    /\ all_nodes = <<>>
    /\ out = <<>>
    /\ dresult = [kind |-> "None", overlaps |-> 0]
    /\ wrapped = FALSE
    /\ IdleFind
    /\ IdleTool

SpecDumpWide == InitDumpWide /\ [][NextDump]_vars

NextTool == LoadCopy \/ LoadParam \/ LoadFinish \/ ExtractParam \/ ExtractFinish

InitToolRun == InitTool /\ IdleFind /\ IdleDump

SpecTool == InitToolRun /\ [][NextTool]_vars

(***************************************************************************)
(* Vocabulary of the claims about find_fmap and parse_fmap.                *)
(***************************************************************************)
Done == pc = "done"
FindRun == entry = "find_fmap"
LimitOf(d) == Len(d) - HEADER_SIZE

\* the bytes at offset k are the encoding of D, whole
HoldsAt(d, k, D) ==
    /\ k + Len(Encode(D)) <= Len(d)
    /\ SubSeq(d, k + 1, k + Len(Encode(D))) = Encode(D)

WellFormedAt(d, k) == \E D \in Descs : WellFormed(D) /\ HoldsAt(d, k, D)

\* the offsets find_fmap may probe: 0 and the multiples of 4 up to limit
Candidates(d) == {0} \cup { o \in 1..LimitOf(d) : o % 4 = 0 }

\* the read_exact calls of a given length, in order
RECURSIVE ReadsOfLen(_, _)
ReadsOfLen(rs, n) ==
    IF rs = <<>> THEN <<>>
    ELSE (IF Head(rs)[2] = n THEN <<Head(rs)[1]>> ELSE <<>>) \o ReadsOfLen(Tail(rs), n)

\* the offsets probed for the signature, the offset decoded, the area reads
Probes == ReadsOfLen(reads, Len(SIGNATURE))
HeaderReads == ReadsOfLen(reads, FMapRawSize)
AreaReads == ReadsOfLen(reads, AREA_SIZE)
Decoded == HeaderReads # <<>>
Selected == HeaderReads[1]

\* the version bytes and the area count of the header at offset o
MajorAt(o) == data[o + Len(SIGNATURE) + 1]
MinorAt(o) == data[o + Len(SIGNATURE) + 2]
NareasAt(o) == LEDecode(SubSeq(data, o + HEADER_SIZE - 1, o + HEADER_SIZE))
\* the raw flags of the i-th area record after the header decoded
RawFlagsAt(i) ==
    LEDecode(SubSeq(data, Selected + HEADER_SIZE + i * AREA_SIZE - 1,
                    Selected + HEADER_SIZE + i * AREA_SIZE))

\* the source ends before the header, or before the area records it announces
HeaderCut == Selected + HEADER_SIZE > Len(data)
AreasCut == ~HeaderCut /\ Selected + HEADER_SIZE + NareasAt(Selected) * AREA_SIZE > Len(data)

\* The order of section 4.1: alignments from the largest power of two <= limit
\* halving down to 4, the multiples of each alignment ascending.
RECURSIVE Multiples(_, _, _)
Multiples(a, o, lim) == IF o > lim THEN <<>> ELSE <<o>> \o Multiples(a, o + a, lim)

RECURSIVE OrderFrom(_, _)
OrderFrom(a, lim) ==
    IF a < 4 THEN <<>> ELSE Multiples(a, a, lim) \o OrderFrom(a \div 2, lim)

StatedOrder(lim) == IF lim < 1 THEN <<>> ELSE OrderFrom(Pow2(FloorLog2(lim)), lim)

HasHit(seq) == \E i \in 1..Len(seq) : SigAt(data, seq[i])

FirstHit(seq) ==
    IF HasHit(seq)
    THEN CHOOSE i \in 1..Len(seq) :
             SigAt(data, seq[i]) /\ \A j \in 1..(i - 1) : ~SigAt(data, seq[j])
    ELSE Len(seq)

\* find_fmap returned D, found at offset k
Returned(D, k) ==
    /\ result.kind = "Ok"
    /\ result.hit_offset = k
    /\ result.fmap.name = D.name
    /\ result.fmap.version_major = D.version_major
    /\ result.fmap.version_minor = D.version_minor
    /\ result.fmap.base = D.base
    /\ result.fmap.size = D.size
    /\ Len(result.fmap.areas) = Len(D.areas)
    /\ \A i \in 1..Len(D.areas) :
          /\ result.fmap.areas[i].offset = D.areas[i].offset
          /\ result.fmap.areas[i].size = D.areas[i].size
          /\ result.fmap.areas[i].name = D.areas[i].name

(***************************************************************************)
(* Claims.                                                                 *)
(***************************************************************************)

\* C1: when the source is longer than the header, the signature is at exactly
\* one offset k, k is a multiple of 4 with 4 <= k <= limit, and a well-formed
\* version-1 descriptor starts at k, find_fmap returns Ok with hit_offset = k;
\* for every limit >= 4, limit = 4 with k = 4 included.
C1_FindsTheOnlyAlignedDescriptor ==
    (FindRun /\ Done /\ Len(data) > HEADER_SIZE) =>
        \A k \in SigOffsets(data) :
            (/\ SigOffsets(data) = {k}
             /\ k >= 4 /\ k % 4 = 0 /\ k <= LimitOf(data)
             /\ WellFormedAt(data, k))
            => result.kind = "Ok" /\ result.hit_offset = k

\* C2: when the source holds, at offset 0, the encoding of a well-formed
\* version-1 descriptor with all its area records, find_fmap returns that
\* descriptor (name, version, base, size, the areas in order with their offset,
\* size and name) and hit_offset = 0, whatever else the source holds.
C2_OffsetZeroRoundTrip ==
    (FindRun /\ Done) =>
        \A D \in Descs : (WellFormed(D) /\ HoldsAt(data, 0, D)) => Returned(D, 0)

\* C3: when the source is longer than the header and no candidate offset (0 and
\* the multiples of 4 up to limit) holds the signature, find_fmap returns
\* NotFound, also when the signature is at offsets that are not multiples of 4.
C3_NotFoundWithoutCandidate ==
    (FindRun /\ Done /\ Len(data) > HEADER_SIZE
        /\ \A o \in Candidates(data) : ~SigAt(data, o))
    => result = NotFound

\* C3 witness: NotFound for a source that holds the signature, at an offset
\* that is no multiple of 4 only.
C3_Witness ==
    /\ FindRun /\ Done /\ result = NotFound
    /\ SigOffsets(data) # {}
    /\ \A o \in SigOffsets(data) : o % 4 # 0 /\ o <= LimitOf(data)

\* C4: find_fmap rejects the source as too small, before any read, exactly when
\* its length is below HEADER_SIZE; a source of exactly HEADER_SIZE bytes is
\* not rejected so.
C4_TooSmallExactlyBelowHeaderSize ==
    (FindRun /\ Done) =>
        ((result.kind = "IOError" /\ reads = <<>>) <=> Len(data) < HEADER_SIZE)

\* C5: when find_fmap decodes the header at the offset it selected and the
\* major version byte there is not 1, the result is IncorrectVersion with
\* exactly the major and minor bytes of the source and no area record is read;
\* when the major version is 1 the version is accepted whatever the minor is.
C5_IncorrectVersionCarriesThePair ==
    (FindRun /\ Done /\ Decoded) =>
        /\ MajorAt(Selected) # 1 =>
              /\ result.kind = "IncorrectVersion"
              /\ result.major = MajorAt(Selected)
              /\ result.minor = MinorAt(Selected)
              /\ AreaReads = <<>>
              /\ fmap.areas = <<>>
        /\ MajorAt(Selected) = 1 =>
              /\ result.kind # "IncorrectVersion"
              /\ result.kind = "Ok" => result.fmap.version_minor = MinorAt(Selected)

\* C5 witness: a header of version 6.x that announces an area record, which is
\* there, rejected with its version pair.
C5_Witness ==
    /\ FindRun /\ Done /\ Decoded
    /\ result.kind = "IncorrectVersion" /\ result.major = 6
    /\ NareasAt(Selected) = 1 /\ ~AreasCut

\* C6: a read of parse_fmap that meets the end of the source fails the decoding
\* with IOError: always when the header is cut, and when the area records of a
\* version-1 header are cut; a cut source gives neither NotFound nor a
\* descriptor, IncorrectVersion only for a whole header whose major byte is not
\* 1, and a descriptor returned holds as many areas as the header announces.
C6_ShortReadIsIOError ==
    (Done /\ Decoded) =>
        /\ HeaderCut => result.kind = "IOError"
        /\ (AreasCut /\ MajorAt(Selected) = 1) => result.kind = "IOError"
        /\ (HeaderCut \/ AreasCut) => result.kind \in {"IOError", "IncorrectVersion"}
        /\ ((HeaderCut \/ AreasCut) /\ result.kind = "IncorrectVersion") =>
              ~HeaderCut /\ MajorAt(Selected) # 1 /\ result.major = MajorAt(Selected)
        /\ result.kind = "Ok" => Len(result.fmap.areas) = NareasAt(Selected)

\* C6 witness: find_fmap decoded one area record, the source ended before the
\* second, and the result is IOError.
C6_Witness ==
    /\ FindRun /\ Done /\ Decoded /\ AreasCut
    /\ Len(fmap.areas) = 1 /\ NareasAt(Selected) = 2
    /\ result.kind = "IOError"

\* C7: when the signature is not at offset 0, find_fmap probes the candidates in
\* the stated order (alignments from the largest power of two <= limit down to
\* 4, multiples ascending) up to the first that holds the signature, and
\* decodes there.
C7_ProbesInStatedOrder ==
    (FindRun /\ Done /\ Len(data) > HEADER_SIZE /\ ~SigAt(data, 0)) =>
        LET so == StatedOrder(LimitOf(data))
        IN  /\ Tail(Probes) = SubSeq(so, 1, FirstHit(so))
            /\ HasHit(so) => Decoded /\ Selected = so[FirstHit(so)]

\* C8: every area decoded keeps exactly the known bits of its raw flags: the
\* flags are the raw 16-bit value restricted to Static, Compressed, RO, Preserve.
C8_FlagsKeepKnownBits ==
    (Done /\ result.kind = "Ok") =>
        \A i \in 1..Len(result.fmap.areas) :
            result.fmap.areas[i].flags = BitAnd(RawFlagsAt(i), AllFlags)

(***************************************************************************)
(* Vocabulary of the claims about the region tree.                         *)
(***************************************************************************)
\* the deduplication/overlap pass has looked at every candidate
DedupPassed == dpc \in {"parents", "gaps", "done"} \/ (dpc = "dedup" /\ idx > Len(nodes))

\* the parent assignment has looked at every accepted node, nothing later has run
ParentsAssigned == dpc = "gaps" /\ idx = 1

Accepted == { deduplicated[i] : i \in 1..Len(deduplicated) }

\* the addresses a region covers, as a half-open interval
Points(n) == n.offset..(n.offset + n.size - 1)

Disjoint(a, b) == Points(a) \cap Points(b) = {}

PartiallyOverlap(a, b) ==
    /\ ~Disjoint(a, b)
    /\ ~(Points(a) \subseteq Points(b))
    /\ ~(Points(b) \subseteq Points(a))

SameRegion(a, b) == a.offset = b.offset /\ a.size = b.size

\* offset >= parent.offset and end <= parent.end
Contains(p, n) == n.offset >= p.offset /\ n.offset + n.size <= p.offset + p.size

ProperlyNested(a, b) == Contains(b, a) /\ ~SameRegion(a, b)

Containers(h) == { g \in Accepted \ {h} : Contains(arena[g], arena[h]) }

Occurrences(s, x) == Cardinality({ i \in 1..Len(s) : s[i] = x })

\* C9: after the deduplication/overlap pass, whatever the descriptor and the
\* value of ignore_overlap, no two accepted nodes partially overlap, no two
\* have the same (offset, size), and every pair is disjoint or one of the two
\* is properly nested in the other.
C9_AcceptedPairsDisjointOrNested ==
    DedupPassed =>
        \A g, h \in Accepted :
            g # h =>
                /\ ~PartiallyOverlap(arena[g], arena[h])
                /\ ~SameRegion(arena[g], arena[h])
                /\ \/ Disjoint(arena[g], arena[h])
                   \/ ProperlyNested(arena[g], arena[h])
                   \/ ProperlyNested(arena[h], arena[g])

\* the pass ran with ignore_overlap set, turned away a candidate that partially
\* overlaps an accepted node, recorded an alias, and kept a nested pair
C9_Witness ==
    /\ dpc = "parents"
    /\ ignore_overlap
    /\ \E i \in 1..Len(nodes) :
          /\ nodes[i] \notin Accepted
          /\ \E g \in Accepted : PartiallyOverlap(arena[nodes[i]], arena[g])
    /\ \E g \in Accepted : arena[g].aliases # <<>>
    /\ \E g, h \in Accepted : g # h /\ ProperlyNested(arena[g], arena[h])

\* C10: after parent assignment, every accepted node contained in another
\* accepted node has a parent, the parent is an accepted node containing it
\* that is no larger than any other accepted node containing it, and the node
\* is listed exactly once among that parent's children (and among no other
\* node's children).
C10_ParentIsSmallestContainer ==
    ParentsAssigned =>
        \A h \in Accepted :
            Containers(h) # {} =>
                /\ arena[h].parent \in Containers(h)
                /\ \A g \in Containers(h) : arena[arena[h].parent].size <= arena[g].size
                /\ Occurrences(arena[arena[h].parent].children, h) = 1
                /\ \A g \in Accepted \ {arena[h].parent} :
                      Occurrences(arena[g].children, h) = 0

(***************************************************************************)
(* Vocabulary for comparing trees.                                         *)
(***************************************************************************)
Region(n) == <<n.offset, n.size>>

\* the nodes as the conversion of lines 117-138 leaves them
Fresh == ConvertNodes(dfmap)

\* the tree over the accepted list, every handle replaced by its region
TreeOf(ar, dd) ==
    [i \in 1..Len(dd) |->
        [name |-> ar[dd[i]].name,
         aliases |-> ar[dd[i]].aliases,
         region |-> Region(ar[dd[i]]),
         parent |-> IF ar[dd[i]].parent = NoParent THEN <<>>
                    ELSE Region(ar[ar[dd[i]].parent]),
         children |-> [k \in 1..Len(ar[dd[i]].children) |->
                          Region(ar[ar[dd[i]].children[k]])]]]

\* the tree without the names: nodes, parents, children order
ShapeOf(ar, dd) ==
    [i \in 1..Len(dd) |->
        [region |-> TreeOf(ar, dd)[i].region,
         parent |-> TreeOf(ar, dd)[i].parent,
         children |-> TreeOf(ar, dd)[i].children]]

\* the nodes of ar0 whose index is in keep, in their order
RECURSIVE KeepFrom(_, _, _)
KeepFrom(ar0, keep, i) ==
    IF i > Len(ar0) THEN <<>>
    ELSE (IF i \in keep THEN <<ar0[i]>> ELSE <<>>) \o KeepFrom(ar0, keep, i + 1)

KeepNodes(ar0, keep) == KeepFrom(ar0, keep, 1)

FirstOfRegion(ar0) ==
    { i \in 1..Len(ar0) : \A j \in 1..(i - 1) : Region(ar0[j]) # Region(ar0[i]) }

NoPartialOverlapIn(ar0) ==
    \A i, j \in 1..Len(ar0) : ~PartiallyOverlap(ar0[i], ar0[j])

NamesIn(ar0) == { ar0[i].name : i \in 1..Len(ar0) }

\* C11: when no region partially overlaps another, the regions with one
\* (offset, size) end up as exactly one accepted node; its name and aliases
\* together are the names of those regions, each as often as it occurs; and
\* the tree has the shape (nodes, parents, children order) of the tree built
\* from the same regions with one node per (offset, size).
C11_DuplicatesCollapseIntoAliases ==
    (ParentsAssigned /\ NoPartialOverlapIn(Fresh)) =>
        /\ \A i \in 1..Len(Fresh) :
              LET same == { j \in 1..Len(Fresh) : Region(Fresh[j]) = Region(Fresh[i]) }
              IN  \E h \in Accepted :
                     /\ Region(arena[h]) = Region(Fresh[i])
                     /\ \A g \in Accepted : Region(arena[g]) = Region(Fresh[i]) => g = h
                     /\ \A x \in NamesIn(Fresh) :
                           Occurrences(<<arena[h].name>> \o arena[h].aliases, x)
                               = Cardinality({ j \in same : Fresh[j].name = x })
        /\ LET t == BuildTree(KeepNodes(Fresh, FirstOfRegion(Fresh)), ignore_overlap)
           IN  ShapeOf(arena, deduplicated) = ShapeOf(t.arena, t.deduplicated)

\* the example image with "shared_dup" added: "normal" is the node,
\* "shared_dup" its only alias, and the root has its four children
C11_Witness ==
    /\ ParentsAssigned
    /\ dfmap \in ExampleInputs
    /\ \E i \in 1..Len(dfmap.areas) : dfmap.areas[i] = SharedDup
    /\ Len(deduplicated) = 5
    /\ \E h \in Accepted :
          arena[h].name = NameNormal /\ arena[h].aliases = <<NameSharedDup>>

\* the areas of the descriptor that have the region r, by index
AreasOfRegion(r) ==
    { i \in 1..Len(dfmap.areas) : <<dfmap.areas[i].offset, dfmap.areas[i].size>> = r }

FirstIndex(S) == CHOOSE i \in S : \A j \in S : i <= j

\* the names of the areas with region r after the first one, in descriptor order
RECURSIVE LaterNames(_, _, _)
LaterNames(r, first, i) ==
    IF i > Len(dfmap.areas) THEN <<>>
    ELSE (IF i \in AreasOfRegion(r) /\ i # first THEN <<dfmap.areas[i].name>> ELSE <<>>)
         \o LaterNames(r, first, i + 1)

\* C12: among the areas with one (offset, size) (a region other than the
\* whole image's), the accepted node carries the name of the one that comes
\* first in the descriptor's area order, and its aliases are the names of the
\* later ones in descriptor order, whatever the names are.
C12_FirstInDescriptorOrderIsTheNode ==
    DedupPassed =>
        \A h \in Accepted :
            LET r == Region(arena[h])
                first == FirstIndex(AreasOfRegion(r))
            IN  (AreasOfRegion(r) # {} /\ r # <<dfmap.base, dfmap.size>>) =>
                    /\ arena[h].name = dfmap.areas[first].name
                    /\ arena[h].aliases = LaterNames(r, first, 1)

\* the candidates that partially overlap an accepted node
OverlapExcluded ==
    { h \in 1..Len(Fresh) : \E g \in Accepted : PartiallyOverlap(Fresh[h], arena[g]) }

\* the node h is in the tree, as a node or as an alias of the node of its region
InTree(h) ==
    \/ h \in Accepted
    \/ \E g \in Accepted :
          /\ Region(arena[g]) = Region(Fresh[h])
          /\ \E k \in 1..Len(arena[g].aliases) : arena[g].aliases[k] = Fresh[h].name

\* C13: when some region partially overlaps another (so that a candidate
\* partially overlaps an accepted node): without ignore_overlap the function
\* returns Err, never assigns parents and writes nothing; with ignore_overlap
\* it returns Ok, the candidates that partially overlap an accepted node are
\* exactly the regions missing from the tree, and the tree (names, aliases,
\* parents, children order) is the tree built from the other regions alone.
C13_OverlapFailsOrIsExcluded ==
    ~NoPartialOverlapIn(Fresh) =>
        /\ ~ignore_overlap =>
              /\ dpc \notin {"parents", "gaps"}
              /\ dpc = "done" => (dresult.kind = "Err" /\ out = <<>> /\ all_nodes = <<>>)
        /\ ignore_overlap =>
              /\ dpc = "done" => dresult.kind = "Ok"
              /\ ParentsAssigned =>
                    /\ OverlapExcluded # {}
                    /\ \A h \in 1..Len(Fresh) : InTree(h) <=> h \notin OverlapExcluded
                    /\ LET t == BuildTree(KeepNodes(Fresh, (1..Len(Fresh)) \ OverlapExcluded),
                                          ignore_overlap)
                       IN  TreeOf(arena, deduplicated) = TreeOf(t.arena, t.deduplicated)

\* the example image with the straddling region [0x90, 0x180), overlaps
\* ignored: Ok, the root and the four regions accepted, the straddler left out
C13_Witness ==
    /\ dpc = "done"
    /\ ignore_overlap
    /\ dresult.kind = "Ok"
    /\ \E i \in 1..Len(dfmap.areas) : dfmap.areas[i] = Straddle
    /\ Len(deduplicated) = 5
    /\ \A h \in Accepted : arena[h].name # NameStraddle

\* C14: after the deduplication pass the overlap count is the number of
\* candidates rejected for a partial overlap with an accepted node, one per
\* candidate, with ignore_overlap as without it; so with ignore_overlap and
\* an overlapping region the count is nonzero.
C14_OverlapCountIsRecorded ==
    DedupPassed => overlaps = Cardinality(OverlapExcluded)

\* the handle of the whole-image node "-entire flash-"
RootHandle == Len(dfmap.areas) + 1

\* C15: for every descriptor, once the list is sorted the whole-image node is
\* its first element, it is the first accepted node, and it never has a parent.
C15_RootIsIndexZero ==
    dpc \notin {"idle", "convert"} =>
        /\ nodes[1] = RootHandle
        /\ deduplicated[1] = RootHandle
        /\ arena[RootHandle].parent = NoParent

Finished == dpc = "done" /\ dresult.kind = "Ok"

\* the lines written for nodes (not for aliases) that show the node h
NodeLinesOf(h) ==
    { k \in 1..Len(out) :
          /\ out[k].kind = "node"
          /\ out[k].name = arena[h].name
          /\ out[k].offset = arena[h].offset
          /\ out[k].size = arena[h].size }

\* C16: in a finished run, an accepted node contained in no other accepted
\* node has no parent and depth 0, is in the list handed to show exactly once
\* and has its own output line at level 0, with or without children.
C16_OrphanIsRootLevelAndRendered ==
    Finished =>
        \A h \in Accepted :
            Containers(h) = {} =>
                /\ arena[h].parent = NoParent
                /\ parents_number(arena, h) = 0
                /\ Occurrences(all_nodes, h) = 1
                /\ \E k \in NodeLinesOf(h) : out[k].level = 0

\* the gap pass is about to treat a node that has children
GapTurn == dpc = "gaps" /\ idx <= Len(deduplicated) /\ arena[deduplicated[idx]].children # <<>>

\* an "[UNUSED]" node for the range [from, to) under the node h
UnusedNode(h, from, to) ==
    [name |-> UnusedName, offset |-> from, size |-> to - from, aliases |-> <<>>,
     parent |-> h, children |-> <<>>]

\* the start of the range that may lie open before the i-th child of h: the
\* node's start for the first child, the end of the child before it otherwise
OpenFrom(h, ch, i) ==
    IF i = 1 THEN arena[h].offset ELSE arena[ch[i - 1]].offset + arena[ch[i - 1]].size

GapBefore(h, ch, i) == OpenFrom(h, ch, i) < arena[ch[i]].offset

\* the children of h with an "[UNUSED]" node before each child that has a gap
\* before it, from the i-th child on
RECURSIVE WithGapsFrom(_, _, _)
WithGapsFrom(h, ch, i) ==
    IF i > Len(ch) THEN <<>>
    ELSE (IF GapBefore(h, ch, i)
          THEN <<UnusedNode(h, OpenFrom(h, ch, i), arena[ch[i]].offset)>>
          ELSE <<>>)
         \o <<arena[ch[i]]>> \o WithGapsFrom(h, ch, i + 1)

\* C17: when the gap pass treats a node with children, it counts one gap
\* before the first child iff the node starts before it and one between two
\* consecutive children iff the left one ends before the right one starts
\* (beyond these, at most the one for the range after the last child); with
\* show_gaps each such gap is one "[UNUSED]" child at that position with the
\* offset and length of the open range, the node as parent and no children,
\* and the old children keep their order; without show_gaps the children stay.
C17_GapsBeforeAndBetweenChildren ==
    [][GapTurn =>
          LET h == deduplicated[idx]
              ch == arena[h].children
              gaps == Cardinality({ i \in 1..Len(ch) : GapBefore(h, ch, i) })
              want == WithGapsFrom(h, ch, 1)
              got == [k \in 1..Len(arena'[h].children) |-> arena'[arena'[h].children[k]]]
          IN  /\ gap_count' - gap_count - gaps \in {0, 1}
              /\ SelectSeq(arena'[h].children, LAMBDA x : x <= Len(arena)) = ch
              /\ IF show_gaps
                 THEN /\ Len(got) - Len(want) \in {0, 1}
                      /\ SubSeq(got, 1, Len(want)) = want
                 ELSE arena'[h].children = ch /\ Len(arena') = Len(arena)]_vars

\* with show_gaps, some node has an "[UNUSED]" child as its first child, before
\* a child that starts later than the node, and some node has one between two
\* of its children
C17_Witness ==
    /\ dpc = "gaps"
    /\ show_gaps
    /\ gap_count >= 2
    /\ \E h \in Accepted :
          /\ Len(arena[h].children) >= 2
          /\ arena[arena[h].children[1]].name = UnusedName
          /\ arena[arena[h].children[1]].offset = arena[h].offset
          /\ arena[arena[h].children[1]].size =
                 arena[arena[h].children[2]].offset - arena[h].offset
    /\ \E h \in Accepted : \E k \in 2..(Len(arena[h].children) - 1) :
          /\ arena[arena[h].children[k]].name = UnusedName
          /\ arena[arena[h].children[k - 1]].name # UnusedName
          /\ arena[arena[h].children[k]].offset = end(arena[arena[h].children[k - 1]])
          /\ end(arena[arena[h].children[k]]) = arena[arena[h].children[k + 1]].offset

\* the children of h that are accepted nodes, not "[UNUSED]" nodes
RealChildren(h) == SelectSeq(arena[h].children, LAMBDA x : x <= Len(Fresh))

\* the open ranges of h: before and between its children, and after the last
OpenRanges(h) ==
    LET ch == RealChildren(h)
    IN  Cardinality({ i \in 1..Len(ch) : GapBefore(h, ch, i) })
        + (IF end(arena[ch[Len(ch)]]) < end(arena[h]) THEN 1 ELSE 0)

RECURSIVE OpenRangesFrom(_)
OpenRangesFrom(i) ==
    IF i > Len(deduplicated) THEN 0
    ELSE (IF arena[deduplicated[i]].children = <<>> THEN 0
          ELSE OpenRanges(deduplicated[i]))
         + OpenRangesFrom(i + 1)

\* the children of h lie end to start and fill h from its start to its end
Tiles(h) ==
    LET ch == arena[h].children
    IN  /\ arena[ch[1]].offset = arena[h].offset
        /\ \A k \in 1..(Len(ch) - 1) : end(arena[ch[k]]) = arena[ch[k + 1]].offset
        /\ end(arena[ch[Len(ch)]]) = end(arena[h])

\* C18: in a finished run the gap count includes, for every node with
\* children whose last child ends before the node does, one gap for the range
\* from that end to the node's end; with show_gaps that range is an
\* "[UNUSED]" child after the last child, so that the children of every node
\* that has children tile the node's interval exactly.
C18_TrailingGapAndTiling ==
    Finished =>
        /\ gap_count = OpenRangesFrom(1)
        /\ show_gaps => \A h \in Accepted : arena[h].children # <<>> => Tiles(h)

\* C19: for a descriptor with an empty area list the function returns Ok, the
\* list handed to show holds exactly the whole-image node, and the output is
\* the header and one node line for [base, base + size) at level 0.
C19_EmptyListRendersTheRoot ==
    (dpc = "done" /\ dfmap.areas = <<>>) =>
        /\ dresult.kind = "Ok"
        /\ all_nodes = <<RootHandle>>
        /\ out = <<HeaderLine,
                   show_line("node", 0, RootName, dfmap.base,
                             dfmap.base + dfmap.size, dfmap.size)>>

\* the descriptor is the example image with its four areas in some order
IsExample ==
    /\ dfmap.base = 0
    /\ dfmap.size = ExampleSize
    /\ Len(dfmap.areas) = 4
    /\ { dfmap.areas[i] : i \in 1..4 } = ExampleAreas

ExampleChildren == << <<0, 128>>, <<128, 128>>, <<256, 256>>, <<512, 512>> >>

ExampleLeaf(name, r) ==
    [name |-> name, aliases |-> <<>>, region |-> r,
     parent |-> <<0, ExampleSize>>, children |-> <<>>]

\* C20: for the example image (base 0, size 0x400, bootblock, normal,
\* fallback, data) with the areas in any order, the run ends Ok with no
\* overlap and no gap counted, and the tree is the root [0, 0x400) with those
\* four regions as its children in ascending offset order, each at depth 1
\* and without children.
C20_ExampleTree ==
    (dpc = "done" /\ IsExample) =>
        /\ dresult.kind = "Ok"
        /\ overlaps = 0
        /\ gap_count = 0
        /\ TreeOf(arena, deduplicated) =
              << [name |-> RootName, aliases |-> <<>>, region |-> <<0, ExampleSize>>,
                  parent |-> <<>>, children |-> ExampleChildren],
                 ExampleLeaf(NameBootblock, ExampleChildren[1]),
                 ExampleLeaf(NameNormal, ExampleChildren[2]),
                 ExampleLeaf(NameFallback, ExampleChildren[3]),
                 ExampleLeaf(NameData, ExampleChildren[4]) >>
        /\ \A i \in 2..5 : parents_number(arena, deduplicated[i]) = 1
        /\ parents_number(arena, deduplicated[1]) = 0

\* the example given with "data" first and "bootblock" last has run to its end
C20_Witness ==
    /\ dpc = "done"
    /\ IsExample
    /\ dfmap.areas[1].name = NameData
    /\ dfmap.areas[4].name = NameBootblock
    /\ Len(out) = 6

(***************************************************************************)
(* Vocabulary for the list handed to show and the lines written.           *)
(***************************************************************************)
\* the ancestors of the node h: its parent, the parent's parent, ...
RECURSIVE Ancestors(_)
Ancestors(h) ==
    IF arena[h].parent = NoParent THEN {}
    ELSE {arena[h].parent} \cup Ancestors(arena[h].parent)

\* the positions of all_nodes that hold descendants of the node at position i
DescendantsAt(i) == { j \in 1..Len(all_nodes) : all_nodes[i] \in Ancestors(all_nodes[j]) }

\* the index in out of the line of the node at position i of all_nodes
RECURSIVE LineOf(_)
LineOf(i) ==
    IF i = 1 THEN 2
    ELSE LineOf(i - 1) + 1 + Len(arena[all_nodes[i - 1]].aliases)

\* the list is a pre-order of the forest: no node twice, every parent in the
\* list, and the descendants of a node directly after it, nothing in between
IsPreOrder ==
    /\ \A i, j \in 1..Len(all_nodes) : i # j => all_nodes[i] # all_nodes[j]
    /\ \A i \in 1..Len(all_nodes) :
          /\ arena[all_nodes[i]].parent # NoParent =>
                \E k \in 1..(i - 1) : all_nodes[k] = arena[all_nodes[i]].parent
          /\ DescendantsAt(i) = (i + 1)..(i + Cardinality(DescendantsAt(i)))

SiblingsAscend ==
    \A i, j \in 1..Len(all_nodes) :
        (i < j /\ arena[all_nodes[i]].parent = arena[all_nodes[j]].parent) =>
            arena[all_nodes[i]].offset <= arena[all_nodes[j]].offset

\* one line per node at the level of its number of ancestors, directly
\* followed by one line per alias at the same level
LinesFollowTheList ==
    /\ out[1] = HeaderLine
    /\ Len(out) = IF all_nodes = <<>> THEN 1
                  ELSE LineOf(Len(all_nodes)) + Len(arena[all_nodes[Len(all_nodes)]].aliases)
    /\ \A i \in 1..Len(all_nodes) :
          LET n == arena[all_nodes[i]]
              lv == Cardinality(Ancestors(all_nodes[i]))
          IN  /\ out[LineOf(i)] =
                     [kind |-> "node", level |-> lv, name |-> n.name,
                      offset |-> n.offset, end |-> n.offset + n.size, size |-> n.size]
              /\ \A a \in 1..Len(n.aliases) :
                     out[LineOf(i) + a] =
                         [kind |-> "duplicate", level |-> lv, name |-> n.aliases[a],
                          offset |-> n.offset, end |-> n.offset + n.size, size |-> n.size]

\* C21: in a finished run the list handed to show is a pre-order traversal of
\* the forest (every node after its parent, its descendants directly after it
\* and so before any later sibling of it or of an ancestor), siblings are in
\* ascending offset order, every node line is at the level of the node's
\* number of ancestors, and a node's alias lines directly follow its line at
\* the same level.
C21_ShowGetsAPreOrder ==
    Finished => (IsPreOrder /\ SiblingsAscend /\ LinesFollowTheList)

\* what the run has produced, in the form of the value of Dump
Produced ==
    [result |-> dresult, arena |-> arena, deduplicated |-> deduplicated,
     gap_count |-> gap_count, all_nodes |-> all_nodes, out |-> out]

\* the accepted nodes with name, aliases and parent, and their children that
\* are not "[UNUSED]" nodes added by the gap pass
TreeWithoutGaps(d, f) ==
    [i \in 1..Len(d.deduplicated) |->
        LET n == d.arena[d.deduplicated[i]]
        IN  [handle |-> d.deduplicated[i], name |-> n.name, aliases |-> n.aliases,
             offset |-> n.offset, size |-> n.size, parent |-> n.parent,
             children |-> SelectSeq(n.children, LAMBDA x : x <= Len(f.areas) + 1)]]

\* C22: for every descriptor the run with show_gaps and the run without it
\* have the same outcome, the same accepted nodes with the same names,
\* aliases and parents, the same non-gap children in the same order and the
\* same gap count; the run without show_gaps adds no node and leaves every
\* children list as the parent pass made it.
C22_ShowGapsOnlyAddsUnusedNodes ==
    dpc = "done" =>
        LET on == Dump(dfmap, TRUE, ignore_overlap)
            off == Dump(dfmap, FALSE, ignore_overlap)
        IN  /\ Produced = (IF show_gaps THEN on ELSE off)
            /\ on.result = off.result
            /\ on.gap_count = off.gap_count
            /\ TreeWithoutGaps(on, dfmap) = TreeWithoutGaps(off, dfmap)
            /\ Len(off.arena) = Len(Fresh)
            /\ \A h \in 1..Len(off.arena) : off.arena[h].name # UnusedName
            /\ \A k \in 1..Len(on.arena) :
                  k > Len(Fresh) =>
                      /\ on.arena[k].name = UnusedName
                      /\ on.arena[k].children = <<>>
                      /\ on.arena[k].aliases = <<>>

\* a finished run with show_gaps that counted gaps and added "[UNUSED]" nodes
\* below two different nodes
C22_Witness ==
    /\ Finished
    /\ show_gaps
    /\ gap_count >= 2
    /\ \E j, k \in (Len(Fresh) + 1)..Len(arena) : arena[j].parent # arena[k].parent

\* find_fmap got past the length test and has returned
Scanned == Done /\ FindRun /\ ~TooSmall(Len(data))

\* the last offset probed for the signature
LastProbe == Probes[Len(Probes)]

\* C23: the first offset, in the order find_fmap probes, that holds the
\* signature decides the result: no offset is probed after it, the header is
\* read there and nowhere else, and the result is IncorrectVersion(major,
\* minor) of that header when its major version is not 1 (no area read),
\* IOError when its area records run past the end of the source, Ok at that
\* offset otherwise; NotFound when no probed offset holds the signature. A
\* well-formed descriptor at a candidate offset not yet probed changes nothing.
C23_FirstSignatureDecides ==
    Scanned =>
        /\ Probes # <<>>
        /\ \A i \in 1..(Len(Probes) - 1) : ~SigAt(data, Probes[i])
        /\ IF SigAt(data, LastProbe)
           THEN /\ HeaderReads = <<LastProbe>>
                /\ IF MajorAt(LastProbe) # VERSION_MAJOR
                   THEN /\ result.kind = "IncorrectVersion"
                        /\ result.major = MajorAt(LastProbe)
                        /\ result.minor = MinorAt(LastProbe)
                        /\ AreaReads = <<>>
                   ELSE IF AreasCut
                   THEN result.kind = "IOError"
                   ELSE result.kind = "Ok" /\ result.hit_offset = LastProbe
           ELSE HeaderReads = <<>> /\ result.kind = "NotFound"

\* the first probed signature has a major version other than 1 and the result
\* is IncorrectVersion, while a well-formed descriptor sits at a candidate
\* offset that was never probed
C23_Witness ==
    /\ Scanned
    /\ result.kind = "IncorrectVersion"
    /\ LastProbe # 0
    /\ \E c \in Candidates(data) :
          /\ WellFormedAt(data, c)
          /\ \A i \in 1..Len(Probes) : Probes[i] # c

\* a node without its handle
Ident(n) == <<n.name, n.offset, n.size>>

\* a value of Dump without the handles: the outcome, the gap count, the lines
\* written, the list handed to show, and the accepted nodes with name,
\* aliases, region, parent and children in order
View(d) ==
    [result |-> d.result,
     gap_count |-> d.gap_count,
     out |-> d.out,
     shown |-> [i \in 1..Len(d.all_nodes) |-> Ident(d.arena[d.all_nodes[i]])],
     tree |-> [i \in 1..Len(d.deduplicated) |->
                  LET n == d.arena[d.deduplicated[i]]
                  IN  [node |-> Ident(n),
                       aliases |-> n.aliases,
                       parent |-> IF n.parent = NoParent THEN <<>>
                                  ELSE Ident(d.arena[n.parent]),
                       children |-> [k \in 1..Len(n.children) |->
                                        Ident(d.arena[n.children[k]])]]]]

\* the orders of n things
Perms(n) == { p \in [1..n -> 1..n] : \A i, j \in 1..n : i # j => p[i] # p[j] }

\* the descriptor f with its areas in the order p
Permute(f, p) == [f EXCEPT !.areas = [i \in 1..Len(f.areas) |-> f.areas[p[i]]]]

\* C24: the outcome of dump_human_readable (Ok or Err and the count, accepted
\* nodes, which name is the node and which are aliases, parents, children
\* order, gaps, the lines written) is the same for every order of the areas
\* of the descriptor.
C24_AreaOrderDoesNotMatter ==
    dpc = "done" =>
        /\ View(Produced) = View(Dump(dfmap, show_gaps, ignore_overlap))
        /\ \A p \in Perms(Len(dfmap.areas)) :
              View(Dump(Permute(dfmap, p), show_gaps, ignore_overlap)) = View(Produced)

\* a finished run on areas given in descending offset order, two of them with
\* one (offset, size) and different names, the one given first being the alias
C24_Witness ==
    /\ Finished
    /\ Len(dfmap.areas) = 3
    /\ dfmap.areas[1].offset > dfmap.areas[2].offset
    /\ dfmap.areas[2].offset = dfmap.areas[3].offset
    /\ dfmap.areas[2].size = dfmap.areas[3].size
    /\ \E h \in Accepted :
          /\ arena[h].name = dfmap.areas[3].name
          /\ arena[h].aliases = <<dfmap.areas[2].name>>
          /\ arena[h].name # dfmap.areas[2].name
    /\ Len(out) >= 4


(***************************************************************************)
(* load_fmap and extract_fmap                                              *)
(***************************************************************************)
LoadDone == cmd = "load_fmap" /\ tpc = "done"
ExtractDone == cmd = "extract_fmap" /\ tpc = "done"

\* the area the k-th SECTION:PATH pair names
AreaOf(k) == tfmap.areas[get(tfmap, params[k][1])]

RECURSIVE ImageWithLoaded(_)
\* the whole image with the areas of the first k pairs replaced by their
\* file's bytes and the fill byte
ImageWithLoaded(k) ==
    IF k = 0 THEN image
    ELSE WriteAt(ImageWithLoaded(k - 1), AreaOf(k).offset,
                 FilledBuf(FileAt(params[k][2]), AreaOf(k).size, fill_value))

\* C25: when load_fmap succeeds with an output path, the output file is the
\* whole input image from byte 0, of the image's length, with each loaded
\* area [offset, offset+size) holding the area file's bytes followed by the
\* fill byte.
C25_OutputIsTheImageWithLoadedAreas ==
    (LoadDone /\ tresult = "Ok" /\ output)
        => /\ Len(final_file) = Len(image)
           /\ final_file = ImageWithLoaded(Len(params))

\* the k-th pair names a section of the descriptor
Found(k) == get(tfmap, params[k][1]) # 0

\* the section of the k-th pair exists, is not empty and lies within the image
Extractable(k) ==
    /\ Found(k)
    /\ AreaOf(k).size # 0
    /\ AreaOf(k).offset + AreaOf(k).size <= tfmap.size

\* the bytes [offset, offset+size) of the image
ImageRange(ar) == SubSeq(image, ar.offset + 1, ar.offset + ar.size)

Reported(kind, area_name) ==
    \E j \in 1..Len(messages) : messages[j] = Message(kind, area_name)

\* C26: extract_fmap writes, for every requested SECTION:PATH whose section
\* exists, has non-zero size and lies within the image, exactly the bytes
\* [offset, offset+size) of the image to PATH, sections at offset 0 included,
\* and it reports a section as 'zero size' only when its size is 0.
C26_ExtractWritesTheAreaBytes ==
    (ExtractDone /\ tresult # "Panic")
        => /\ \A k \in 1..Len(params) :
                  Extractable(k)
                      => \E j \in 1..Len(written) :
                             written[j] = [path |-> params[k][2],
                                           bytes |-> ImageRange(AreaOf(k))]
           /\ \A k \in 1..Len(params) :
                  (Found(k) /\ Reported("zero size", params[k][1]))
                      => AreaOf(k).size = 0

\* the k-th pair came as far as the bounds check
BoundsChecked(k) ==
    /\ k < pidx
    /\ Found(k)
    /\ cmd = "extract_fmap" => AreaOf(k).offset # 0

\* C27: the bounds check of extract_fmap and load_fmap rejects ('stretches
\* beyond image') every area whose end offset + size exceeds the descriptor's
\* image size, also when the sum leaves the 32-bit word: the end is never
\* compared after wrapping and the computation never aborts.
C27_BoundsCheckRejectsEveryAreaBeyondTheImage ==
    /\ tresult # "Panic"
    /\ \A k \in 1..Len(params) :
           (BoundsChecked(k) /\ AreaOf(k).offset + AreaOf(k).size > tfmap.size)
               => Reported("stretches beyond image", params[k][1])

(***************************************************************************)
(* The arithmetic of the tree builder                                      *)
(***************************************************************************)
\* C28: the tree builder never panics: for every base of the width of usize,
\* every image size and every list of areas, every end = offset + size and
\* every gap size dump_human_readable computes stays within the machine word,
\* and the function returns Ok or the overlap error.
C28_TreeBuilderStaysInTheWord ==
    /\ dresult.kind # "Panic"
    /\ ~wrapped
    /\ dpc = "done" => dresult.kind \in {"Ok", "Err"}

====
